---- MODULE Spec2Model ----
(***************************************************************************)
(* A model of the Treasury-statement extraction pipeline:                  *)
(*   - the numeric normalizer   TreasuryStatementExtractor._parse_amount   *)
(*   - the row classifier       TreasuryStatementExtractor._parse_budget_line *)
(*   - the section machine      TreasuryStatementExtractor._process_budget_table_data *)
(*   - the metadata resolvers   _extract_metadata, parse_filename,         *)
(*                              extract_metadata_from_filename             *)
(*   - the comparison engine    calculate_budget_comparison,               *)
(*                              _calculate_percentage_change,              *)
(*                              compare_statements, compare_departments    *)
(*   - the department pipeline  extract_page_text, extract_budget_data,    *)
(*                              extract_departments_data and its cache     *)
(*   - the batch runs           process_pdfs.main, process_pdfs            *)
(*   - the statement service    process_statement, process_pdf_background, *)
(*                              get_statement                              *)
(*   - the text generation      analyze_with_openai                        *)
(* Python strings are TLA+ strings; a character is a string of length 1.   *)
(* A Python float is modelled by the decimal it denotes, m * 10^e, in      *)
(* canonical form (m not divisible by 10, or m = 0 and e = 0); the inputs  *)
(* of the model have fewer significant digits than a double holds.         *)
(***************************************************************************)
EXTENDS Integers, Sequences, FiniteSets, TLC

VARIABLES
    \* _process_budget_table_data
    ocr_results,      \* the recognized texts consumed so far, in order
    current_section,  \* "None", "receipts" or "outlays"
    receipts_data,
    outlays_data,
    table_pc,         \* "loop", "returned" or "raised"
    \* _parse_amount / _parse_budget_line
    amount_str,       \* the token handed to _parse_amount
    amount_out,       \* what _parse_amount did with it
    line_out,         \* what _parse_budget_line did with RowWith(amount_str)
    \* metadata resolvers
    filename,         \* the basename of the PDF
    document,         \* whether the PDF can be read, and the text of its first page
    meta_out,         \* what the resolver that was called returned
    \* the ratio of this_month to budget_estimate
    dept_data,        \* the record whose ratio is computed
    ratio_out,        \* what the ratio computation did with it
    \* _calculate_percentage_change
    current,          \* the value of the primary statement
    previous,         \* the value of the comparison statement, or None
    change_out,       \* what _calculate_percentage_change did with them
    \* the statement comparison endpoints
    processed_statements,\* the cache of processed statements, by statement id
    request,          \* the query: primary and comparison
    response,         \* what the endpoint that was called answered
    \* the department endpoints and their directories
    pdf_dir,          \* the page-9 text of each PDF of the PDF directory, by statement id
    processed_dir,    \* the department cache files, by statement id
    dept_request,     \* the query of compare_departments: primary and comparison
    dept_response,    \* what compare_departments answered
    \* extract_page_text
    page_pdf,         \* the PDF: the texts of its pages, or None when it cannot be opened
    page_number,      \* the 0-indexed page asked for
    page_out,         \* what extract_page_text did with them
    \* the batch runs over the PDFs of a directory
    batch_module,     \* the batch that is run: "process_pdfs" or "extract_budget_comparison"
    pdf_files,        \* the PDFs of the directory, in the order of the loop
    batch_done,       \* the number of PDFs the loop has been through
    all_data,         \* the combined data of extract_budget_comparison.process_pdfs
    batch_files,      \* the files written, in order
    batch_log,        \* the PDFs whose failure or lack of data was logged, in order
    batch_result,     \* None while the batch runs, then what it returned or raised
    \* the department cache file of one statement and the calls that share it
    workers,          \* the state of each call that is under way, by worker
    cache_file,       \* the cache file: None when it does not exist, else its content
    last_write,       \* the record of the write to the cache file that came last, or None
    \* analyze_with_openai and its collaborator
    analysis_module,  \* the script whose analyze_with_openai is called
    analysis_type,    \* the analysis_type argument
    analysis_data,    \* the data argument
    completion,       \* what openai.chat.completions.create does when it is called
    analysis_out,     \* what analyze_with_openai did
    \* _parse_budget_line on a label and its numeric fields
    row_label,        \* the label of the line
    row_fields,       \* the numeric fields that follow the label, in order
    row_out,          \* what _parse_budget_line did with the line
    \* extract_budget_data on a page text
    budget_text,      \* the page text, or None
    budget_fields,    \* the whitespace-separated groups that follow the department name in the text
    budget_department,\* the department_name argument
    budget_out,       \* what extract_budget_data did
    \* _process_budget_table_data on detections with their positions and scores
    ocr_detections,   \* the detections (bbox, text, score) consumed so far, in order
    ocr_locals,       \* the three locals of the loop
    ocr_out,          \* None while the loop runs, then the two lists returned
    \* the statement service: its documents, its output files and the runs of process_pdf_background (its cache is processed_statements)
    service_module,   \* the module that serves: "lib.pdf.api" or "api.main"
    documents_dir,    \* the page-9 text of each PDF of the documents directory, by file name
    data_dir,         \* the files of the data directory, by stem
    background_tasks  \* the runs of process_pdf_background since startup, in the order of their requests

vars == <<ocr_results, current_section, receipts_data, outlays_data, table_pc,
          amount_str, amount_out, line_out, filename, document, meta_out,
          dept_data, ratio_out, current, previous, change_out,
          processed_statements, request, response, pdf_dir, processed_dir,
          dept_request, dept_response, page_pdf, page_number, page_out,
          batch_module, pdf_files, batch_done, all_data, batch_files,
          batch_log, batch_result, workers, cache_file, last_write,
          analysis_module, analysis_type, analysis_data, completion,
          analysis_out, row_label, row_fields, row_out, budget_text,
          budget_fields, budget_department, budget_out, ocr_detections,
          ocr_locals, ocr_out, service_module, documents_dir, data_dir,
          background_tasks>>

table_vars == <<ocr_results, current_section, receipts_data, outlays_data,
                table_pc>>
parse_vars == <<amount_str, amount_out, line_out>>
meta_vars == <<filename, document, meta_out>>
ratio_vars == <<dept_data, ratio_out>>
change_vars == <<current, previous, change_out>>
compare_vars == <<processed_statements, request, response>>
dept_vars == <<pdf_dir, processed_dir, dept_request, dept_response>>
page_vars == <<page_pdf, page_number, page_out>>
batch_vars == <<batch_module, pdf_files, batch_done, all_data, batch_files,
                batch_log, batch_result>>
cache_vars == <<workers, cache_file, last_write>>
analysis_vars == <<analysis_module, analysis_type, analysis_data, completion,
                   analysis_out>>
row_vars == <<row_label, row_fields, row_out>>
budget_vars == <<budget_text, budget_fields, budget_department, budget_out>>
ocr_vars == <<ocr_detections, ocr_locals, ocr_out>>
service_vars == <<service_module, documents_dir, data_dir, background_tasks>>

\* the variables added after the extractor's: every group but one is idle in a specification
later_vars == <<ratio_vars, change_vars, compare_vars, dept_vars, page_vars,
                batch_vars, cache_vars, analysis_vars, row_vars, budget_vars,
                ocr_vars, service_vars>>
not_ratio_vars == <<table_vars, parse_vars, meta_vars, change_vars,
                    compare_vars, dept_vars, page_vars, batch_vars, cache_vars,
                    analysis_vars, row_vars, budget_vars, ocr_vars,
                    service_vars>>
not_change_vars == <<table_vars, parse_vars, meta_vars, ratio_vars,
                     compare_vars, dept_vars, page_vars, batch_vars,
                     cache_vars, analysis_vars, row_vars, budget_vars,
                     ocr_vars, service_vars>>
not_compare_vars == <<table_vars, parse_vars, meta_vars, ratio_vars,
                      change_vars, dept_vars, page_vars, batch_vars,
                      cache_vars, analysis_vars, row_vars, budget_vars,
                      ocr_vars, service_vars>>
not_dept_vars == <<table_vars, parse_vars, meta_vars, ratio_vars, change_vars,
                   compare_vars, page_vars, batch_vars, cache_vars,
                   analysis_vars, row_vars, budget_vars, ocr_vars,
                   service_vars>>
not_page_vars == <<table_vars, parse_vars, meta_vars, ratio_vars, change_vars,
                   compare_vars, dept_vars, batch_vars, cache_vars,
                   analysis_vars, row_vars, budget_vars, ocr_vars,
                   service_vars>>
not_batch_vars == <<table_vars, parse_vars, meta_vars, ratio_vars, change_vars,
                    compare_vars, dept_vars, page_vars, cache_vars,
                    analysis_vars, row_vars, budget_vars, ocr_vars,
                    service_vars>>
not_cache_vars == <<table_vars, parse_vars, meta_vars, ratio_vars, change_vars,
                    compare_vars, dept_vars, page_vars, batch_vars,
                    analysis_vars, row_vars, budget_vars, ocr_vars,
                    service_vars>>
not_analysis_vars == <<table_vars, parse_vars, meta_vars, ratio_vars,
                       change_vars, compare_vars, dept_vars, page_vars,
                       batch_vars, cache_vars, row_vars, budget_vars, ocr_vars,
                       service_vars>>
not_row_vars == <<table_vars, parse_vars, meta_vars, ratio_vars, change_vars,
                  compare_vars, dept_vars, page_vars, batch_vars, cache_vars,
                  analysis_vars, budget_vars, ocr_vars, service_vars>>
not_budget_vars == <<table_vars, parse_vars, meta_vars, ratio_vars,
                     change_vars, compare_vars, dept_vars, page_vars,
                     batch_vars, cache_vars, analysis_vars, row_vars, ocr_vars,
                     service_vars>>
not_ocr_vars == <<table_vars, parse_vars, meta_vars, ratio_vars, change_vars,
                  compare_vars, dept_vars, page_vars, batch_vars, cache_vars,
                  analysis_vars, row_vars, budget_vars, service_vars>>
not_service_vars == <<table_vars, parse_vars, meta_vars, ratio_vars,
                      change_vars, compare_vars, dept_vars, page_vars,
                      batch_vars, cache_vars, analysis_vars, row_vars,
                      budget_vars, ocr_vars>>

----------------------------------------------------------------------------
(* Bounds of the model *)

MaxLines == 4       \* recognized texts in one OCR result
MaxTokLen == 4      \* characters of a numeric token
MaxFieldLen == 4    \* characters of a filename after its three-letter prefix

----------------------------------------------------------------------------
(* Python strings *)

Char(s, i) == SubSeq(s, i, i)

Slice(s, lo, hi) == SubSeq(s, lo + 1, IF hi < Len(s) THEN hi ELSE Len(s))

Digits == {"0", "1", "2", "3", "4", "5", "6", "7", "8", "9"}

IsDigit(c) == c \in Digits

DigitVal(c) ==
    CASE c = "0" -> 0 [] c = "1" -> 1 [] c = "2" -> 2 [] c = "3" -> 3
      [] c = "4" -> 4 [] c = "5" -> 5 [] c = "6" -> 6 [] c = "7" -> 7
      [] c = "8" -> 8 [] c = "9" -> 9

DigitChar(d) ==
    CASE d = 0 -> "0" [] d = 1 -> "1" [] d = 2 -> "2" [] d = 3 -> "3"
      [] d = 4 -> "4" [] d = 5 -> "5" [] d = 6 -> "6" [] d = 7 -> "7"
      [] d = 8 -> "8" [] d = 9 -> "9"

Whitespace == {" ", "\t", "\n", "\r", "\f"}

IsSpace(c) == c \in Whitespace

AllDigits(s) == \A i \in 1..Len(s) : IsDigit(Char(s, i))

\* how many characters of s, from position p on, are in the class before the
\* first that is not
RunLen(s, p, class) ==
    (CHOOSE q \in p..(Len(s) + 1) :
        /\ q = Len(s) + 1 \/ Char(s, q) \notin class
        /\ \A k \in p..(q - 1) : Char(s, k) \in class) - p

\* how many characters of s, from position p on, are outside the class before
\* the first that is in it
RunLenNot(s, p, class) ==
    (CHOOSE q \in p..(Len(s) + 1) :
        /\ q = Len(s) + 1 \/ Char(s, q) \in class
        /\ \A k \in p..(q - 1) : Char(s, k) \notin class) - p

\* the position of the last character of s that is no whitespace (0 if none)
LastNonSpace(s) ==
    CHOOSE q \in 0..Len(s) :
        /\ \A k \in (q + 1)..Len(s) : IsSpace(Char(s, k))
        /\ q = 0 \/ ~IsSpace(Char(s, q))

\* str.strip()
Strip(s) == SubSeq(s, 1 + RunLen(s, 1, Whitespace), LastNonSpace(s))

\* sub in s
Contains(sub, s) ==
    \E i \in 1..(Len(s) - Len(sub) + 1) : SubSeq(s, i, i + Len(sub) - 1) = sub

\* s.startswith(p)
StartsWith(s, p) == Len(s) >= Len(p) /\ SubSeq(s, 1, Len(p)) = p

\* s.replace(c, '') for a one-character c, half of s at a time
RECURSIVE RemoveChar(_, _)
RemoveChar(s, c) ==
    IF Len(s) <= 1 THEN (IF s = c THEN "" ELSE s)
    ELSE RemoveChar(SubSeq(s, 1, Len(s) \div 2), c)
             \o RemoveChar(SubSeq(s, Len(s) \div 2 + 1, Len(s)), c)

\* the value of a string of decimal digits ("" is 0)
RECURSIVE DigitsValue(_)
DigitsValue(s) ==
    IF s = "" THEN 0
    ELSE 10 * DigitsValue(SubSeq(s, 1, Len(s) - 1)) + DigitVal(Char(s, Len(s)))

\* str(n) of a natural number
RECURSIVE NatStr(_)
NatStr(n) == IF n < 10 THEN DigitChar(n) ELSE NatStr(n \div 10) \o DigitChar(n % 10)

\* str(n) of an int
IntStr(n) == IF n < 0 THEN "-" \o NatStr(-n) ELSE NatStr(n)

\* Python values of more than one type in one place
None == [none |-> TRUE]
PyStr(s) == [str |-> s]
PyInt(n) == [int |-> n]

\* A call's outcome: the value returned, or an exception raised; logged counts
\* the log records of the except branches taken.
Returned(v, n) == [raised |-> FALSE, value |-> v, logged |-> n]
Raised(exc) == [raised |-> TRUE, exc |-> exc]

----------------------------------------------------------------------------
(* Python floats, as canonical decimals *)

RECURSIVE Norm(_, _)
Norm(m, e) ==
    IF m = 0 THEN [m |-> 0, e |-> 0]
    ELSE IF m % 10 = 0 THEN Norm(m \div 10, e + 1)
    ELSE [m |-> m, e |-> e]

Num(n) == Norm(n, 0)

Zero == Num(0)

Negated(v) == [m |-> -v.m, e |-> v.e]

LowerChar(c) ==
    CASE c = "I" -> "i" [] c = "N" -> "n" [] c = "F" -> "f" [] c = "T" -> "t"
      [] c = "Y" -> "y" [] c = "A" -> "a" [] OTHER -> c

\* s.lower(), half of s at a time
RECURSIVE Lower(_)
Lower(s) ==
    IF Len(s) <= 1 THEN LowerChar(s)
    ELSE Lower(SubSeq(s, 1, Len(s) \div 2)) \o Lower(SubSeq(s, Len(s) \div 2 + 1, Len(s)))

\* digitpart ::= digit (["_"] digit)*
IsDigitPart(s) ==
    /\ Len(s) >= 1
    /\ IsDigit(Char(s, 1))
    /\ IsDigit(Char(s, Len(s)))
    /\ \A i \in 1..Len(s) : IsDigit(Char(s, i)) \/ Char(s, i) = "_"
    /\ \A i \in 1..(Len(s) - 1) : ~(Char(s, i) = "_" /\ Char(s, i + 1) = "_")

\* the text before the first "." of s, and the text after it
BeforeDot(s) == SubSeq(s, 1, RunLenNot(s, 1, {"."}))
AfterDot(s) == SubSeq(s, RunLenNot(s, 1, {"."}) + 2, Len(s))

\* [digitpart] ["." [digitpart]] with a digit on at least one side
IsPointFloat(s) ==
    IF ~Contains(".", s) THEN IsDigitPart(s)
    ELSE /\ BeforeDot(s) = "" \/ IsDigitPart(BeforeDot(s))
         /\ AfterDot(s) = "" \/ IsDigitPart(AfterDot(s))
         /\ BeforeDot(s) # "" \/ AfterDot(s) # ""

\* the decimal with integer digits ip and fraction digits fp, times 10^ex
DecimalOf(ip, fp, ex) == Norm(DigitsValue(ip \o fp), ex - Len(fp))

\* the decimal a well-formed [digitpart] ["." [digitpart]] denotes, times 10^ex
PointFloatValue(s, ex) ==
    DecimalOf(RemoveChar(BeforeDot(s), "_"), RemoveChar(AfterDot(s), "_"), ex)

FloatOk(v, neg) == [ok |-> TRUE, value |-> IF neg THEN Negated(v) ELSE v]
FloatError == [ok |-> FALSE]

\* inf or -inf
Infinity(neg) == [ok |-> TRUE, value |-> [special |-> IF neg THEN "-inf" ELSE "inf"]]

\* The decimal with the digits ds, the last fraction of them after the point,
\* times 10^ex, has more than 309 digits before its point: it is beyond the
\* largest double (below 1.8 * 10^308) and float() gives inf for it, without an
\* exception. No input of the model has exactly 309 such digits, where the
\* leading digits decide.
Overflows(ds, fraction, ex) ==
    /\ RunLen(ds, 1, {"0"}) < Len(ds)
    /\ Len(ds) - RunLen(ds, 1, {"0"}) - fraction + ex > 309

\* float() of a well-formed [digitpart] ["." [digitpart]] times 10^ex
FloatOfDecimal(s, ex, neg) ==
    IF Overflows(RemoveChar(BeforeDot(s), "_") \o RemoveChar(AfterDot(s), "_"),
                 Len(RemoveChar(AfterDot(s), "_")), ex)
    THEN Infinity(neg)
    ELSE FloatOk(PointFloatValue(s, ex), neg)

\* mantissa, "e", exponent digits with their sign taken off
FloatExponent(mant, edigits, eneg, neg) ==
    IF IsPointFloat(mant) /\ IsDigitPart(edigits)
    THEN FloatOfDecimal(mant, (IF eneg THEN -1 ELSE 1)
                                  * DigitsValue(RemoveChar(edigits, "_")), neg)
    ELSE FloatError

\* mantissa, "e", exponent
FloatSplit(mant, expo, neg) ==
    IF expo # "" /\ Char(expo, 1) \in {"+", "-"}
    THEN FloatExponent(mant, SubSeq(expo, 2, Len(expo)), Char(expo, 1) = "-", neg)
    ELSE FloatExponent(mant, expo, FALSE, neg)

\* the text after the sign
FloatBody(body, neg) ==
    IF Lower(body) \in {"inf", "infinity"} THEN Infinity(neg)
    ELSE IF Lower(body) = "nan"
      THEN [ok |-> TRUE, value |-> [special |-> "nan"]]
    ELSE IF RunLenNot(body, 1, {"e", "E"}) = Len(body)
      THEN (IF IsPointFloat(body) THEN FloatOfDecimal(body, 0, neg)
            ELSE FloatError)
    ELSE FloatSplit(SubSeq(body, 1, RunLenNot(body, 1, {"e", "E"})),
                    SubSeq(body, RunLenNot(body, 1, {"e", "E"}) + 2, Len(body)), neg)

\* the text without its surrounding whitespace
FloatStripped(t) ==
    IF t # "" /\ Char(t, 1) \in {"+", "-"}
    THEN FloatBody(SubSeq(t, 2, Len(t)), Char(t, 1) = "-")
    ELSE FloatBody(t, FALSE)

\* float(s) of a str: FloatError stands for ValueError. The grammar is that of
\* the builtin: surrounding whitespace, a sign, then inf, infinity or nan in any
\* case, or a decimal number with an optional exponent.
float(s) == FloatStripped(Strip(s))

----------------------------------------------------------------------------
(* TreasuryStatementExtractor._parse_amount *)

\* try: return float(...)   except Exception: logger.debug(...); return 0.0
ReturnOrZero(result) ==
    IF result.ok THEN Returned(result.value, 0)
    ELSE Returned(Zero, 1)

\* the conversion without the try/except around it
ReturnOrRaise(result) ==
    IF result.ok THEN Returned(result.value, 0)
    ELSE Raised("ValueError")

\* float(amount_str) without the replace(',', '')
_parse_amount_KeepsCommas(amount_str_) == ReturnOrZero(float(amount_str_))

_parse_amount_Uncaught(amount_str_) == ReturnOrRaise(float(RemoveChar(amount_str_, ",")))

_parse_amount(amount_str_) == ReturnOrZero(float(RemoveChar(amount_str_, ",")))

----------------------------------------------------------------------------
(* The three row patterns of _parse_budget_line, matched as re.match does:  *)
(* anchored at the start of the text only, the label (.+?) as short as     *)
(* possible, everything else as long as possible.                          *)

\* (?:,\d{3})* at position p of s: the position after the last group taken
RECURSIVE SkipThousands(_, _)
SkipThousands(s, p) ==
    IF /\ p + 3 <= Len(s)
       /\ Char(s, p) = ","
       /\ AllDigits(SubSeq(s, p + 1, p + 3))
    THEN SkipThousands(s, p + 4)
    ELSE p

\* (?:\.\d+)? at position p of s: the position after it
SkipFraction(s, p) ==
    IF p + 1 <= Len(s) /\ Char(s, p) = "." /\ IsDigit(Char(s, p + 1))
    THEN p + 1 + RunLen(s, p + 1, Digits)
    ELSE p

\* The length of the match the pattern's number group prefers at the start of s,
\* which begins with digits > 0 digits:
\*   1: \d{1,3}(?:,\d{3})*(?:\.\d+)?   2: \d+(?:\.\d+)?   3: \d[\d,\.]*
PreferredNumber(k, s, digits) ==
    CASE k = 1 -> SkipFraction(s, SkipThousands(s, (IF digits > 3 THEN 3 ELSE digits) + 1)) - 1
      [] k = 2 -> SkipFraction(s, digits + 1) - 1
      [] k = 3 -> 1 + RunLen(s, 2, Digits \cup {",", "."})

\* the length of that match, 0 if the group matches nothing at the start of s
NumberPrefix(k, s) ==
    IF RunLen(s, 1, Digits) = 0 THEN 0
    ELSE PreferredNumber(k, s, RunLen(s, 1, Digits))

\* (?:,\d{3})*(?:\.\d+)? matches the whole of r
RECURSIVE IsThousandsTail(_)
IsThousandsTail(r) ==
    \/ r = ""
    \/ /\ Char(r, 1) = "."
       /\ Len(r) >= 2
       /\ AllDigits(SubSeq(r, 2, Len(r)))
    \/ /\ Char(r, 1) = ","
       /\ Len(r) >= 4
       /\ AllDigits(SubSeq(r, 2, 4))
       /\ IsThousandsTail(SubSeq(r, 5, Len(r)))

\* (?:\.\d+)? matches the whole of r
IsFractionTail(r) ==
    \/ r = ""
    \/ /\ Char(r, 1) = "."
       /\ Len(r) >= 2
       /\ AllDigits(SubSeq(r, 2, Len(r)))

\* Whether the whole of s matches the pattern's number group. A group that is
\* followed by \s+ ends where its token ends: the engine backs off the preferred
\* match until it does.
NumberMatches(k, s) ==
    CASE k = 1 ->
           \E d \in 1..3 :
               /\ d <= Len(s)
               /\ AllDigits(SubSeq(s, 1, d))
               /\ IsThousandsTail(SubSeq(s, d + 1, Len(s)))
      [] k = 2 ->
           /\ RunLen(s, 1, Digits) >= 1
           /\ IsFractionTail(SubSeq(s, RunLen(s, 1, Digits) + 1, Len(s)))
      [] k = 3 ->
           /\ Len(s) >= 1
           /\ IsDigit(Char(s, 1))
           /\ \A i \in 2..Len(s) : Char(s, i) \in Digits \cup {",", "."}

\* A number group from position a of the text to before position b.
Field(a, b, ok) == [start |-> a, stop |-> b, ok |-> ok]
FieldText(text, f) == SubSeq(text, f.start, f.stop - 1)

\* \s+(N) before a further \s+: the token that starts at a, if whitespace ends it
TokenField(k, text, a) ==
    Field(a, a + RunLenNot(text, a, Whitespace),
          /\ RunLenNot(text, a, Whitespace) >= 1
          /\ a + RunLenNot(text, a, Whitespace) <= Len(text)
          /\ NumberMatches(k, SubSeq(text, a, a + RunLenNot(text, a, Whitespace) - 1)))

\* \s+(N) at the end of the pattern: the preferred match at a
LastField(k, text, a) ==
    Field(a, a + NumberPrefix(k, SubSeq(text, a, Len(text))),
          NumberPrefix(k, SubSeq(text, a, Len(text))) >= 1)

\* the position after the whitespace that starts at p
AfterSpace(text, p) == p + RunLen(text, p, Whitespace)

GroupsOf(text, n, f2, f3, f4) ==
    IF f4.ok
    THEN <<SubSeq(text, 1, n), FieldText(text, f2), FieldText(text, f3), FieldText(text, f4)>>
    ELSE <<>>

GroupsAfter3(k, text, n, f2, f3) ==
    IF f3.ok THEN GroupsOf(text, n, f2, f3, LastField(k, text, AfterSpace(text, f3.stop)))
    ELSE <<>>

GroupsAfter2(k, text, n, f2) ==
    IF f2.ok THEN GroupsAfter3(k, text, n, f2, TokenField(k, text, AfterSpace(text, f2.stop)))
    ELSE <<>>

\* The groups of (.+?)\s+(N)\s+(N)\s+(N) when the label is the first n characters,
\* or <<>> when the rest of the text does not match after such a label.
GroupsAt(k, text, n) ==
    IF /\ n + 1 <= Len(text)
       /\ IsSpace(Char(text, n + 1))
       /\ \A i \in 1..n : Char(text, i) # "\n"
    THEN GroupsAfter2(k, text, n, TokenField(k, text, AfterSpace(text, n + 1)))
    ELSE <<>>

ShortestOf(k, text, ns) ==
    IF ns = {} THEN <<>>
    ELSE GroupsAt(k, text, CHOOSE n \in ns : \A j \in ns : n <= j)

\* re.match(patterns[k], text): the groups of the match, or <<>> for no match
ReMatch(k, text) ==
    ShortestOf(k, text, {n \in 1..Len(text) : GroupsAt(k, text, n) # <<>>})

----------------------------------------------------------------------------
(* TreasuryStatementExtractor._parse_budget_line *)

Item(category, this_month, fiscal_year, budget_estimate) ==
    [category |-> category,
     this_month |-> this_month,
     fiscal_year_to_date |-> fiscal_year,
     budget_estimate |-> budget_estimate]

\* the return of "if match:", given the outcomes of the three _parse_amount calls
ItemOfAmounts(category, this_month, fiscal_year, budget_estimate) ==
    IF this_month.raised THEN this_month
    ELSE IF fiscal_year.raised THEN fiscal_year
    ELSE IF budget_estimate.raised THEN budget_estimate
    ELSE Returned(Item(category, this_month.value, fiscal_year.value,
                       budget_estimate.value),
                  this_month.logged + fiscal_year.logged + budget_estimate.logged)

\* the body of "if match:" for the groups of a match
ItemOfMatch(groups) ==
    ItemOfAmounts(Strip(groups[1]), _parse_amount(groups[2]),
                  _parse_amount(groups[3]), _parse_amount(groups[4]))

\* "for pattern in patterns": the first match decides; None when there is none
FirstMatch(m1, m2, m3) ==
    IF m1 # <<>> THEN ItemOfMatch(m1)
    ELSE IF m2 # <<>> THEN ItemOfMatch(m2)
    ELSE IF m3 # <<>> THEN ItemOfMatch(m3)
    ELSE Returned(None, 0)

_parse_budget_line(text) == FirstMatch(ReMatch(1, text), ReMatch(2, text), ReMatch(3, text))

----------------------------------------------------------------------------
(* The idle values of the later variable groups *)

RatioIdle == dept_data = None /\ ratio_out = None
ChangeIdle == current = None /\ previous = None /\ change_out = None
CompareIdle == processed_statements = <<>> /\ request = None /\ response = None
DeptIdle == pdf_dir = <<>> /\ processed_dir = <<>> /\ dept_request = None /\ dept_response = None
PageIdle == page_pdf = None /\ page_number = None /\ page_out = None
BatchIdle == batch_module = None /\ pdf_files = <<>> /\ batch_done = 0 /\ all_data = None /\ batch_files = <<>> /\ batch_log = <<>> /\ batch_result = None
CacheIdle == workers = <<>> /\ cache_file = None /\ last_write = None
AnalysisIdle == analysis_module = None /\ analysis_type = None /\ analysis_data = None /\ completion = None /\ analysis_out = None
RowIdle == row_label = "" /\ row_fields = <<>> /\ row_out = None
BudgetIdle == budget_text = None /\ budget_fields = <<>> /\ budget_department = "" /\ budget_out = None
OcrIdle == ocr_detections = <<>> /\ ocr_locals = None /\ ocr_out = None
ServiceIdle == service_module = None /\ documents_dir = <<>> /\ data_dir = <<>> /\ background_tasks = <<>>

LaterIdle ==
    /\ RatioIdle
    /\ ChangeIdle
    /\ CompareIdle
    /\ DeptIdle
    /\ PageIdle
    /\ BatchIdle
    /\ CacheIdle
    /\ AnalysisIdle
    /\ RowIdle
    /\ BudgetIdle
    /\ OcrIdle
    /\ ServiceIdle

\* every group of the model but ratio_vars is idle
RatioOthersIdle ==
    /\ ocr_results = <<>> /\ current_section = "None" /\ receipts_data = <<>>
    /\ outlays_data = <<>> /\ table_pc = "loop"
    /\ amount_str = "" /\ amount_out = None /\ line_out = None
    /\ filename = "" /\ document = None /\ meta_out = None
    /\ ChangeIdle
    /\ CompareIdle
    /\ DeptIdle
    /\ PageIdle
    /\ BatchIdle
    /\ CacheIdle
    /\ AnalysisIdle
    /\ RowIdle
    /\ BudgetIdle
    /\ OcrIdle
    /\ ServiceIdle

\* every group of the model but change_vars is idle
ChangeOthersIdle ==
    /\ ocr_results = <<>> /\ current_section = "None" /\ receipts_data = <<>>
    /\ outlays_data = <<>> /\ table_pc = "loop"
    /\ amount_str = "" /\ amount_out = None /\ line_out = None
    /\ filename = "" /\ document = None /\ meta_out = None
    /\ RatioIdle
    /\ CompareIdle
    /\ DeptIdle
    /\ PageIdle
    /\ BatchIdle
    /\ CacheIdle
    /\ AnalysisIdle
    /\ RowIdle
    /\ BudgetIdle
    /\ OcrIdle
    /\ ServiceIdle

\* every group of the model but compare_vars is idle
CompareOthersIdle ==
    /\ ocr_results = <<>> /\ current_section = "None" /\ receipts_data = <<>>
    /\ outlays_data = <<>> /\ table_pc = "loop"
    /\ amount_str = "" /\ amount_out = None /\ line_out = None
    /\ filename = "" /\ document = None /\ meta_out = None
    /\ RatioIdle
    /\ ChangeIdle
    /\ DeptIdle
    /\ PageIdle
    /\ BatchIdle
    /\ CacheIdle
    /\ AnalysisIdle
    /\ RowIdle
    /\ BudgetIdle
    /\ OcrIdle
    /\ ServiceIdle

\* every group of the model but dept_vars is idle
DeptOthersIdle ==
    /\ ocr_results = <<>> /\ current_section = "None" /\ receipts_data = <<>>
    /\ outlays_data = <<>> /\ table_pc = "loop"
    /\ amount_str = "" /\ amount_out = None /\ line_out = None
    /\ filename = "" /\ document = None /\ meta_out = None
    /\ RatioIdle
    /\ ChangeIdle
    /\ CompareIdle
    /\ PageIdle
    /\ BatchIdle
    /\ CacheIdle
    /\ AnalysisIdle
    /\ RowIdle
    /\ BudgetIdle
    /\ OcrIdle
    /\ ServiceIdle

\* every group of the model but page_vars is idle
PageOthersIdle ==
    /\ ocr_results = <<>> /\ current_section = "None" /\ receipts_data = <<>>
    /\ outlays_data = <<>> /\ table_pc = "loop"
    /\ amount_str = "" /\ amount_out = None /\ line_out = None
    /\ filename = "" /\ document = None /\ meta_out = None
    /\ RatioIdle
    /\ ChangeIdle
    /\ CompareIdle
    /\ DeptIdle
    /\ BatchIdle
    /\ CacheIdle
    /\ AnalysisIdle
    /\ RowIdle
    /\ BudgetIdle
    /\ OcrIdle
    /\ ServiceIdle

\* every group of the model but batch_vars is idle
BatchOthersIdle ==
    /\ ocr_results = <<>> /\ current_section = "None" /\ receipts_data = <<>>
    /\ outlays_data = <<>> /\ table_pc = "loop"
    /\ amount_str = "" /\ amount_out = None /\ line_out = None
    /\ filename = "" /\ document = None /\ meta_out = None
    /\ RatioIdle
    /\ ChangeIdle
    /\ CompareIdle
    /\ DeptIdle
    /\ PageIdle
    /\ CacheIdle
    /\ AnalysisIdle
    /\ RowIdle
    /\ BudgetIdle
    /\ OcrIdle
    /\ ServiceIdle

\* every group of the model but cache_vars is idle
CacheOthersIdle ==
    /\ ocr_results = <<>> /\ current_section = "None" /\ receipts_data = <<>>
    /\ outlays_data = <<>> /\ table_pc = "loop"
    /\ amount_str = "" /\ amount_out = None /\ line_out = None
    /\ filename = "" /\ document = None /\ meta_out = None
    /\ RatioIdle
    /\ ChangeIdle
    /\ CompareIdle
    /\ DeptIdle
    /\ PageIdle
    /\ BatchIdle
    /\ AnalysisIdle
    /\ RowIdle
    /\ BudgetIdle
    /\ OcrIdle
    /\ ServiceIdle

\* every group of the model but analysis_vars is idle
AnalysisOthersIdle ==
    /\ ocr_results = <<>> /\ current_section = "None" /\ receipts_data = <<>>
    /\ outlays_data = <<>> /\ table_pc = "loop"
    /\ amount_str = "" /\ amount_out = None /\ line_out = None
    /\ filename = "" /\ document = None /\ meta_out = None
    /\ RatioIdle
    /\ ChangeIdle
    /\ CompareIdle
    /\ DeptIdle
    /\ PageIdle
    /\ BatchIdle
    /\ CacheIdle
    /\ RowIdle
    /\ BudgetIdle
    /\ OcrIdle
    /\ ServiceIdle

\* every group of the model but row_vars is idle
RowOthersIdle ==
    /\ ocr_results = <<>> /\ current_section = "None" /\ receipts_data = <<>>
    /\ outlays_data = <<>> /\ table_pc = "loop"
    /\ amount_str = "" /\ amount_out = None /\ line_out = None
    /\ filename = "" /\ document = None /\ meta_out = None
    /\ RatioIdle
    /\ ChangeIdle
    /\ CompareIdle
    /\ DeptIdle
    /\ PageIdle
    /\ BatchIdle
    /\ CacheIdle
    /\ AnalysisIdle
    /\ BudgetIdle
    /\ OcrIdle
    /\ ServiceIdle

\* every group of the model but budget_vars is idle
BudgetOthersIdle ==
    /\ ocr_results = <<>> /\ current_section = "None" /\ receipts_data = <<>>
    /\ outlays_data = <<>> /\ table_pc = "loop"
    /\ amount_str = "" /\ amount_out = None /\ line_out = None
    /\ filename = "" /\ document = None /\ meta_out = None
    /\ RatioIdle
    /\ ChangeIdle
    /\ CompareIdle
    /\ DeptIdle
    /\ PageIdle
    /\ BatchIdle
    /\ CacheIdle
    /\ AnalysisIdle
    /\ RowIdle
    /\ OcrIdle
    /\ ServiceIdle

\* every group of the model but ocr_vars is idle
OcrOthersIdle ==
    /\ ocr_results = <<>> /\ current_section = "None" /\ receipts_data = <<>>
    /\ outlays_data = <<>> /\ table_pc = "loop"
    /\ amount_str = "" /\ amount_out = None /\ line_out = None
    /\ filename = "" /\ document = None /\ meta_out = None
    /\ RatioIdle
    /\ ChangeIdle
    /\ CompareIdle
    /\ DeptIdle
    /\ PageIdle
    /\ BatchIdle
    /\ CacheIdle
    /\ AnalysisIdle
    /\ RowIdle
    /\ BudgetIdle
    /\ ServiceIdle

\* every group of the model but service_vars is idle
ServiceOthersIdle ==
    /\ ocr_results = <<>> /\ current_section = "None" /\ receipts_data = <<>>
    /\ outlays_data = <<>> /\ table_pc = "loop"
    /\ amount_str = "" /\ amount_out = None /\ line_out = None
    /\ filename = "" /\ document = None /\ meta_out = None
    /\ RatioIdle
    /\ ChangeIdle
    /\ CompareIdle
    /\ DeptIdle
    /\ PageIdle
    /\ BatchIdle
    /\ CacheIdle
    /\ AnalysisIdle
    /\ RowIdle
    /\ BudgetIdle
    /\ OcrIdle

----------------------------------------------------------------------------
(* TreasuryStatementExtractor._process_budget_table_data *)

\* the condition of "if" at line 290 and of "elif" at line 294
IsReceiptsText(text) == Contains("Budget Receipts", text) \/ Contains("Income Tax", text)
IsOutlaysText(text) == Contains("Budget Outlays", text) \/ Contains("Health", text)

\* append(item) without "if item:"
AppendTo_KeepsNone(st, list, item) ==
    IF item.raised THEN [st EXCEPT !.raised = TRUE]
    ELSE [st EXCEPT ![list] = Append(@, item.value)]

\* append(item) when the row parsed; an exception of the parse ends the loop
AppendTo(st, list, item) ==
    IF item.raised THEN [st EXCEPT !.raised = TRUE]
    ELSE IF item.value # None THEN [st EXCEPT ![list] = Append(@, item.value)]
    ELSE st

\* insert(0, item) for append(item)
PrependTo(st, list, item) ==
    IF item.raised THEN [st EXCEPT !.raised = TRUE]
    ELSE IF item.value # None THEN [st EXCEPT ![list] = <<item.value>> \o @]
    ELSE st

\* the loop body after text = text.strip()
LoopBodyStripped(st, text) ==
    IF text = "" THEN st
    ELSE IF IsReceiptsText(text) THEN [st EXCEPT !.current_section = "receipts"]
    ELSE IF IsOutlaysText(text) THEN [st EXCEPT !.current_section = "outlays"]
    ELSE IF st.current_section = "receipts"
      THEN AppendTo(st, "receipts_data", _parse_budget_line(text))
    ELSE IF st.current_section = "outlays"
      THEN AppendTo(st, "outlays_data", _parse_budget_line(text))
    ELSE st

\* The loop body with one slip made in it:
\*   "unsectioned":   the first branch of the dispatch tests != "outlays"
\*   "prepend":       insert(0, item) for append(item)
\*   "one-way":       a receipts marker is skipped once the section is outlays
\*   "outlays-first": the two marker tests are made in the other order
SlippedLoopBody(st, text, slip) ==
    IF text = "" THEN st
    ELSE IF slip = "outlays-first" /\ IsOutlaysText(text)
      THEN [st EXCEPT !.current_section = "outlays"]
    ELSE IF IsReceiptsText(text) THEN
        IF slip = "one-way" /\ st.current_section = "outlays" THEN st
        ELSE [st EXCEPT !.current_section = "receipts"]
    ELSE IF IsOutlaysText(text) THEN [st EXCEPT !.current_section = "outlays"]
    ELSE IF \/ st.current_section = "receipts"
            \/ slip = "unsectioned" /\ st.current_section # "outlays"
      THEN (IF slip = "prepend"
            THEN PrependTo(st, "receipts_data", _parse_budget_line(text))
            ELSE AppendTo(st, "receipts_data", _parse_budget_line(text)))
    ELSE IF st.current_section = "outlays"
      THEN (IF slip = "prepend"
            THEN PrependTo(st, "outlays_data", _parse_budget_line(text))
            ELSE AppendTo(st, "outlays_data", _parse_budget_line(text)))
    ELSE st

LoopBody_KeepsUnsectioned(st, raw_text) == SlippedLoopBody(st, Strip(raw_text), "unsectioned")
LoopBody_Prepends(st, raw_text) == SlippedLoopBody(st, Strip(raw_text), "prepend")
LoopBody_OneWay(st, raw_text) == SlippedLoopBody(st, Strip(raw_text), "one-way")
LoopBody_OutlaysFirst(st, raw_text) == SlippedLoopBody(st, Strip(raw_text), "outlays-first")

\* One iteration of "for detection in ocr_results" on the loop's three locals;
\* st.raised is set when the iteration ends in an exception.
LoopBody(st, raw_text) == LoopBodyStripped(st, Strip(raw_text))

\* the loop's locals as one value
Locals(section, receipts, outlays) ==
    [current_section |-> section,
     receipts_data |-> receipts,
     outlays_data |-> outlays,
     raised |-> FALSE]

\* The recognized texts the model feeds the loop: the four lines of the synthetic
\* table of the specification, two more rows, a line with both kinds of marker
\* phrase and numeric fields, a line that is no row, and a blank line.
TableLines ==
    { "Budget Receipts",
      "Individual Income Taxes 198,779 926,432 850,000 2,254,000",
      "Budget Outlays",
      "Health and Human Services 146,782 682,511 650,000 1,650,000",
      "Customs Duties 7,929 87,562 382,000",
      " Other 12 3.5 4 ",
      "Budget Outlays and Income Tax 1 2 3",
      "Page 9",
      "  " }

TableInit ==
    /\ ocr_results = <<>>
    /\ current_section = "None"
    /\ receipts_data = <<>>
    /\ outlays_data = <<>>
    /\ table_pc = "loop"

\* the locals after the iteration become the state
Iterate(text, st) ==
    /\ ocr_results' = Append(ocr_results, text)
    /\ current_section' = st.current_section
    /\ receipts_data' = st.receipts_data
    /\ outlays_data' = st.outlays_data
    /\ table_pc' = IF st.raised THEN "raised" ELSE "loop"

\* the loop takes the next detection of the OCR result
ProcessDetection ==
    /\ table_pc = "loop"
    /\ Len(ocr_results) < MaxLines
    /\ \E text \in TableLines :
           Iterate(text, LoopBody(Locals(current_section, receipts_data, outlays_data), text))
    /\ UNCHANGED <<parse_vars, meta_vars, later_vars>>

\* the OCR result is exhausted: return receipts_data, outlays_data
ReturnTable ==
    /\ table_pc = "loop"
    /\ table_pc' = "returned"
    /\ UNCHANGED <<ocr_results, current_section, receipts_data, outlays_data>>
    /\ UNCHANGED <<parse_vars, meta_vars, later_vars>>

ParseIdle == amount_str = "" /\ amount_out = None /\ line_out = None
MetaIdle == filename = "" /\ document = None /\ meta_out = None
TableIdle == TableInit

SpecTableInit == TableInit /\ ParseIdle /\ MetaIdle /\ LaterIdle
SpecTableNext == ProcessDetection \/ ReturnTable
SpecTable == SpecTableInit /\ [][SpecTableNext]_vars

----------------------------------------------------------------------------
(* _parse_amount and _parse_budget_line on every token of a bounded alphabet *)

\* all strings of at most n characters of chars
RECURSIVE StringsUpTo(_, _)
StringsUpTo(chars, n) ==
    IF n = 0 THEN {""}
    ELSE LET shorter == StringsUpTo(chars, n - 1)
         IN  shorter \cup {s \o c : s \in shorter, c \in chars}

\* two digits, the two separators, a sign, an exponent letter, a blank, a letter
AmountChars == {"0", "1", ",", ".", "-", "e", " ", "x"}

Tokens == StringsUpTo(AmountChars, MaxTokLen)

\* a table line whose first numeric field is the token
RowWith(token) == "Net " \o token \o " 2 3"

ParseInit ==
    /\ amount_str \in Tokens
    /\ amount_out = None
    /\ line_out = None

\* self._parse_amount(amount_str)
ParseAmount ==
    /\ amount_out = None
    /\ amount_out' = _parse_amount(amount_str)
    /\ UNCHANGED <<amount_str, line_out, table_vars, meta_vars, later_vars>>

\* self._parse_budget_line(text) for the line that holds the token
ParseLine ==
    /\ line_out = None
    /\ line_out' = _parse_budget_line(RowWith(amount_str))
    /\ UNCHANGED <<amount_str, amount_out, table_vars, meta_vars, later_vars>>

SpecParseInit == ParseInit /\ TableIdle /\ MetaIdle /\ LaterIdle
SpecParseNext == ParseAmount \/ ParseLine
SpecParse == SpecParseInit /\ [][SpecParseNext]_vars

----------------------------------------------------------------------------
(* The metadata resolvers: _extract_metadata of the extractor, parse_filename *)
(* of the API and extract_metadata_from_filename of the comparison script    *)

IntOk(n) == [ok |-> TRUE, value |-> n]
IntError == [ok |-> FALSE]

\* the text after the sign
IntBody(d, neg) ==
    IF IsDigitPart(d)
    THEN IntOk((IF neg THEN -1 ELSE 1) * DigitsValue(RemoveChar(d, "_")))
    ELSE IntError

IntStripped(t) ==
    IF t # "" /\ Char(t, 1) \in {"+", "-"}
    THEN IntBody(SubSeq(t, 2, Len(t)), Char(t, 1) = "-")
    ELSE IntBody(t, FALSE)

\* int(s) of a str: IntError stands for ValueError
int(s) == IntStripped(Strip(s))

months ==
    << "January", "February", "March", "April", "May", "June",
       "July", "August", "September", "October", "November", "December" >>

\* month_name and year of parse_filename, given the two int() outcomes
FilenameFields(month_num, year_num) ==
    IF ~month_num.ok \/ ~year_num.ok
    THEN [month |-> PyStr("Unknown"), year |-> PyStr("Unknown")]
    ELSE [month |-> IF 1 <= month_num.value /\ month_num.value <= 12
                    THEN PyStr(months[month_num.value])
                    ELSE PyStr("Unknown"),
          year |-> PyStr("20" \o IntStr(year_num.value))]

\* parse_filename of src/api/main.py
parse_filename(filename_) ==
    FilenameFields(int(Slice(filename_, 3, 5)), int(Slice(filename_, 5, 7)))

\* extract_metadata_from_filename of extract_budget_comparison.py (month and year)
extract_metadata_from_filename(filename_) ==
    FilenameFields(int(Slice(filename_, 3, 5)), int(Slice(filename_, 5, 7)))

\* (MonthName)\s+(\d{4}) matches at position i of the text with this month name
DateAt(text, i, name) ==
    /\ i + Len(name) <= Len(text)
    /\ SubSeq(text, i, i + Len(name) - 1) = name
    /\ IsSpace(Char(text, i + Len(name)))
    /\ AfterSpace(text, i + Len(name)) + 3 <= Len(text)
    /\ AllDigits(SubSeq(text, AfterSpace(text, i + Len(name)),
                        AfterSpace(text, i + Len(name)) + 3))

DateGroups(text, i, name) ==
    << name, SubSeq(text, AfterSpace(text, i + Len(name)),
                    AfterSpace(text, i + Len(name)) + 3) >>

\* the places of the text where the date pattern matches
DatePlaces(text) ==
    {p \in (1..Len(text)) \X (1..12) : DateAt(text, p[1], months[p[2]])}

LeftmostDate(text, places) ==
    IF places = {} THEN <<>>
    ELSE DateGroups(text, (CHOOSE p \in places : \A q \in places : p[1] <= q[1])[1],
                    months[(CHOOSE p \in places : \A q \in places : p[1] <= q[1])[2]])

\* re.search(date_pattern, first_page_text): the groups, or <<>> for no match
SearchDate(text) == LeftmostDate(text, DatePlaces(text))

\* "if 1 <= month_num <= 12: month = ..." and "year = 2000 + year_num"
FromFilenameFields(month_num, year_num) ==
    IF ~month_num.ok \/ ~year_num.ok
    THEN [month |-> None, year |-> None]
    ELSE [month |-> IF 1 <= month_num.value /\ month_num.value <= 12
                    THEN PyStr(months[month_num.value])
                    ELSE None,
          year |-> PyInt(2000 + year_num.value)]

\* "if month is None or year is None:" after a search that found nothing
FromFilename(filename_) ==
    IF StartsWith(filename_, "mts") /\ Len(filename_) >= 7
    THEN FromFilenameFields(int(Slice(filename_, 3, 5)), int(Slice(filename_, 5, 7)))
    ELSE [month |-> None, year |-> None]

FromDateMatch(date_match, filename_) ==
    IF date_match # <<>>
    THEN [month |-> PyStr(date_match[1]), year |-> PyInt(int(date_match[2]).value)]
    ELSE FromFilename(filename_)

\* month and year of _extract_metadata; a PDF that cannot be opened or read takes
\* the except branch. (title, author and page_count come from the PDF reader.)
_extract_metadata(doc, filename_) ==
    IF ~doc.readable THEN [month |-> None, year |-> None]
    ELSE FromDateMatch(SearchDate(doc.first_page_text), filename_)

\* the characters of a filename after its prefix
FieldChars == {"0", "1", "2", "4", "-"}

Filenames ==
    {p \o b \o e : p \in {"mts", "doc"},
                   b \in StringsUpTo(FieldChars, MaxFieldLen),
                   e \in {".pdf", ""}}

Documents ==
    { [readable |-> FALSE, first_page_text |-> ""],
      [readable |-> TRUE,
       first_page_text |-> "Monthly Treasury Statement\nmay 2024 March 24 December  202"],
      [readable |-> TRUE,
       first_page_text |->
           "Final Monthly Treasury Statement for Fiscal Year 2023 Through March  2023, and Other Periods"] }

MetaInit ==
    /\ filename \in Filenames
    /\ document \in Documents
    /\ meta_out = None

Resolved(by, result) == [by |-> by, month |-> result.month, year |-> result.year]

\* extractor._extract_metadata(pdf_path)
ExtractMetadata ==
    /\ meta_out = None
    /\ meta_out' = Resolved("_extract_metadata", _extract_metadata(document, filename))
    /\ UNCHANGED <<filename, document, table_vars, parse_vars, later_vars>>

\* parse_filename(filename)
ParseFilename ==
    /\ meta_out = None
    /\ meta_out' = Resolved("parse_filename", parse_filename(filename))
    /\ UNCHANGED <<filename, document, table_vars, parse_vars, later_vars>>

\* extract_metadata_from_filename(filename)
ExtractMetadataFromFilename ==
    /\ meta_out = None
    /\ meta_out' = Resolved("extract_metadata_from_filename",
                            extract_metadata_from_filename(filename))
    /\ UNCHANGED <<filename, document, table_vars, parse_vars, later_vars>>

SpecMetaInit == MetaInit /\ TableIdle /\ ParseIdle /\ LaterIdle
SpecMetaNext == ExtractMetadata \/ ParseFilename \/ ExtractMetadataFromFilename
SpecMeta == SpecMetaInit /\ [][SpecMetaNext]_vars

----------------------------------------------------------------------------
(* The section machine's claims, stated over the texts consumed so far *)

ReceiptsPhrases == {"Budget Receipts", "Income Tax"}
OutlaysPhrases == {"Budget Outlays", "Health"}

HasReceiptsPhrase(line) == \E p \in ReceiptsPhrases : Contains(p, line)
HasOutlaysPhrase(line) == \E p \in OutlaysPhrases : Contains(p, line)

\* the record each line of the model parses to (None if it matches no row pattern)
RowTable == [line \in TableLines |-> _parse_budget_line(Strip(line)).value]
RowOf(line) == RowTable[line]

\* what each line of the model is: a marker of a section, a row, or neither
KindTable ==
    [line \in TableLines |->
        IF HasReceiptsPhrase(line) THEN "receipts"
        ELSE IF HasOutlaysPhrase(line) THEN "outlays"
        ELSE IF Strip(line) # "" /\ RowOf(line) # None THEN "row"
        ELSE "none"]

IsMarkerLine(line) == KindTable[line] \in {"receipts", "outlays"}
MarkerSection(line) == KindTable[line]
IsRowLine(line) == KindTable[line] = "row"

Markers(lines) == {i \in 1..Len(lines) : IsMarkerLine(lines[i])}

FirstMarker(lines) ==
    IF Markers(lines) = {} THEN Len(lines) + 1
    ELSE CHOOSE i \in Markers(lines) : \A j \in Markers(lines) : i <= j

\* the section of the last marker line before position j ("None" if there is none)
SectionBefore(lines, j) ==
    LET ms == {i \in Markers(lines) : i < j}
    IN  IF ms = {} THEN "None"
        ELSE MarkerSection(lines[CHOOSE i \in ms : \A k \in ms : i >= k])

\* the records of the row lines among the first n that lie in section sec, in order
RECURSIVE RowsOfSection(_, _, _)
RowsOfSection(lines, sec, n) ==
    IF n = 0 THEN <<>>
    ELSE RowsOfSection(lines, sec, n - 1)
             \o (IF IsRowLine(lines[n]) /\ SectionBefore(lines, n) = sec
                 THEN <<RowOf(lines[n])>> ELSE <<>>)

SeqRange(s) == {s[i] : i \in 1..Len(s)}

\* C1: every row line before the first section-marker line is discarded: while no
\* marker has been consumed both lists are empty, and every record of either list
\* is the record of a row line that lies after the first marker, with no more
\* records than there are such lines.
C1_RowsBeforeFirstMarkerDiscarded ==
    LET f == FirstMarker(ocr_results)
        later == {j \in (f + 1)..Len(ocr_results) : IsRowLine(ocr_results[j])}
    IN  /\ f > Len(ocr_results) => receipts_data = <<>> /\ outlays_data = <<>>
        /\ \A r \in SeqRange(receipts_data) \cup SeqRange(outlays_data) :
               \E j \in later : RowOf(ocr_results[j]) = r
        /\ Len(receipts_data) + Len(outlays_data) <= Cardinality(later)

\* a row line came before the first marker, and a later row was kept
C1_Witness ==
    /\ \E i \in 1..(FirstMarker(ocr_results) - 1) : IsRowLine(ocr_results[i])
    /\ Len(receipts_data) + Len(outlays_data) >= 1

\* C2: each record parsed while the section is receipts (outlays) is in the
\* receipts (outlays) list and in no other, and each list holds its records in
\* the order of their source lines.
C2_RowsAppendedInOrder ==
    /\ receipts_data = RowsOfSection(ocr_results, "receipts", Len(ocr_results))
    /\ outlays_data = RowsOfSection(ocr_results, "outlays", Len(ocr_results))

\* after an outlays marker the section turned to receipts, and two different rows
\* went to the receipts list in the order of their lines
C2_Witness ==
    /\ Len(receipts_data) >= 2
    /\ receipts_data[1] # receipts_data[2]
    /\ outlays_data = <<>>
    /\ \E i \in Markers(ocr_results) : MarkerSection(ocr_results[i]) = "outlays"

\* C3: after any sequence of lines the current section is the section of the most
\* recent marker line (None if there was none), and no line made the loop fail.
C3_SectionIsLastMarker ==
    /\ current_section = SectionBefore(ocr_results, Len(ocr_results) + 1)
    /\ table_pc # "raised"

\* a receipts marker was taken after an outlays marker, which came after a receipts one
C3_Witness ==
    /\ current_section = "receipts"
    /\ \E i, j \in Markers(ocr_results) :
           /\ i < j
           /\ MarkerSection(ocr_results[i]) = "receipts"
           /\ MarkerSection(ocr_results[j]) = "outlays"

\* C4: a line that contains a receipts marker phrase sets the current section to
\* receipts and adds no record to either list, whatever else the line contains.
C4_ReceiptsMarkerNeverARow ==
    [][(/\ Len(ocr_results') = Len(ocr_results) + 1
        /\ HasReceiptsPhrase(ocr_results'[Len(ocr_results')]))
       => (/\ current_section' = "receipts"
           /\ receipts_data' = receipts_data
           /\ outlays_data' = outlays_data)]_vars

\* in the outlays section, a line with both kinds of phrase and numeric fields came
C4_Witness ==
    /\ Len(ocr_results) >= 2
    /\ SectionBefore(ocr_results, Len(ocr_results)) = "outlays"
    /\ HasReceiptsPhrase(ocr_results[Len(ocr_results)])
    /\ HasOutlaysPhrase(ocr_results[Len(ocr_results)])
    /\ current_section = "receipts"

\* the synthetic table of the specification's end-to-end property
SyntheticTable ==
    << "Budget Receipts",
       "Individual Income Taxes 198,779 926,432 850,000 2,254,000",
       "Budget Outlays",
       "Health and Human Services 146,782 682,511 650,000 1,650,000" >>

\* C5: the synthetic table yields exactly one receipts record, with this-period
\* amount 198779, and exactly one outlays record, with this-period amount 146782.
C5_SyntheticTableYieldsTwoRows ==
    ocr_results = SyntheticTable =>
        /\ Len(receipts_data) = 1
        /\ receipts_data[1].this_month = Num(198779)
        /\ Len(outlays_data) = 1
        /\ outlays_data[1].this_month = Num(146782)

----------------------------------------------------------------------------
(* The numeric normalizer's claims *)

HasDigit(s) == \E i \in 1..Len(s) : IsDigit(Char(s, i))
DotCount(s) == Cardinality({i \in 1..Len(s) : Char(s, i) = "."})

\* a token of digits, commas and at most one decimal point
IsPlainToken(s) ==
    /\ \A i \in 1..Len(s) : Char(s, i) \in Digits \cup {",", "."}
    /\ DotCount(s) <= 1

\* the decimal value of a string of digits with at most one decimal point
PlainValue(u) ==
    LET dot == {i \in 1..Len(u) : Char(u, i) = "."}
        decimals == IF dot = {} THEN 0 ELSE Len(u) - (CHOOSE i \in dot : TRUE)
    IN  Norm(DigitsValue(RemoveChar(u, ".")), -decimals)

Unsigned(t) == IF t # "" /\ Char(t, 1) \in {"+", "-"} THEN SubSeq(t, 2, Len(t)) ELSE t
IsNegative(t) == t # "" /\ Char(t, 1) = "-"

IsMantissa(u) == IsPlainToken(u) /\ HasDigit(u) /\ ~Contains(",", u)
IsExponent(x) == Unsigned(x) # "" /\ AllDigits(Unsigned(x))
ExponentValue(x) == (IF IsNegative(x) THEN -1 ELSE 1) * DigitsValue(Unsigned(x))

\* the places where u splits into a mantissa and, after an e, an exponent
\* (Len(u) when the whole of u is a mantissa)
Splits(u) ==
    {i \in 1..Len(u) :
        /\ IsMantissa(SubSeq(u, 1, i))
        /\ \/ i = Len(u)
           \/ Char(u, i + 1) \in {"e", "E"} /\ IsExponent(SubSeq(u, i + 2, Len(u)))}

\* A signed decimal text: whitespace, a sign, a mantissa of digits with at most
\* one decimal point, an exponent, whitespace; all but the mantissa optional.
IsDecimalText(c) == Splits(Unsigned(Strip(c))) # {}

DecimalTextValue(c) ==
    LET t == Strip(c)
        u == Unsigned(t)
        i == CHOOSE i \in Splits(u) : TRUE
        v == PlainValue(SubSeq(u, 1, i))
        x == IF i = Len(u) THEN 0 ELSE ExponentValue(SubSeq(u, i + 2, Len(u)))
        scaled == IF v.m = 0 THEN v ELSE [m |-> v.m, e |-> v.e + x]
    IN  IF IsNegative(t) THEN Negated(scaled) ELSE scaled

IsGarbageField(token) ==
    /\ token # ""
    /\ IsDigit(Char(token, 1))
    /\ \A i \in 1..Len(token) : Char(token, i) \in Digits \cup {",", "."}
    /\ ~IsDecimalText(RemoveChar(token, ","))

\* C7: _parse_amount returns a number for every token and never raises; a parse
\* failure yields 0 and one log record, and a row whose field fails to parse is
\* still returned by _parse_budget_line, with that field 0.
C7_ParseAmountTotal ==
    /\ amount_out # None =>
           /\ ~amount_out.raised
           /\ DOMAIN amount_out.value = {"m", "e"}
           /\ ~IsDecimalText(RemoveChar(amount_str, ",")) => amount_out = Returned(Zero, 1)
    /\ line_out # None =>
           /\ ~line_out.raised
           /\ IsGarbageField(amount_str) =>
                  line_out = Returned(Item("Net", Zero, Num(2), Num(3)), 1)

\* the token 1.. failed to parse, and the row that holds it was returned
C7_Witness ==
    /\ amount_str = "1.."
    /\ amount_out = Returned(Zero, 1)
    /\ line_out # None
    /\ line_out.value # None
    /\ line_out.value.this_month = Zero

----------------------------------------------------------------------------
(* The metadata resolvers' claims *)

\* the fields MM and YY follow the prefix mts, with MM in 01..12
HasFields(f) ==
    /\ Len(f) >= 7
    /\ SubSeq(f, 1, 3) = "mts"
    /\ AllDigits(SubSeq(f, 4, 7))
    /\ DigitsValue(SubSeq(f, 4, 5)) \in 1..12

\* mtsMMYY.<ext> with MM in 01..12
FollowsConvention(f) == HasFields(f) /\ Len(f) >= 8 /\ Char(f, 8) = "."

ConventionMonth(f) == months[DigitsValue(SubSeq(f, 4, 5))]

HasDate(doc) == doc.readable /\ SearchDate(doc.first_page_text) # <<>>

Unresolved(v) == v = None \/ v = PyStr("Unknown")

\* C8: with no date in the text, a filename mtsMMYY.<ext> with MM in 01..12
\* resolves to the month of index MM and the year 2000 + YY, written "20YY".
C8_FilenameResolves ==
    (/\ meta_out # None
     /\ FollowsConvention(filename)
     /\ meta_out.by = "_extract_metadata" => document.readable /\ ~HasDate(document))
    => /\ meta_out.month = PyStr(ConventionMonth(filename))
       /\ meta_out.year = IF meta_out.by = "_extract_metadata"
                          THEN PyInt(2000 + DigitsValue(SubSeq(filename, 6, 7)))
                          ELSE PyStr("20" \o SubSeq(filename, 6, 7))

\* C9: month and year are both resolved or both the Unknown sentinel.
C9_BothOrNeither ==
    meta_out # None => (Unresolved(meta_out.month) <=> Unresolved(meta_out.year))

\* C10: a date in the text is used and the filename not consulted; otherwise the
\* filename is decoded; when that fails too the result is the Unknown sentinel.
C10_FallbackOrder ==
    (meta_out # None /\ meta_out.by = "_extract_metadata") =>
        IF HasDate(document)
        THEN /\ meta_out.month = PyStr(SearchDate(document.first_page_text)[1])
             /\ meta_out.year = PyInt(DigitsValue(SearchDate(document.first_page_text)[2]))
        ELSE IF FollowsConvention(filename)
        THEN /\ meta_out.month = PyStr(ConventionMonth(filename))
             /\ meta_out.year = PyInt(2000 + DigitsValue(SubSeq(filename, 6, 7)))
        ELSE ~HasFields(filename) =>
                 Unresolved(meta_out.month) /\ Unresolved(meta_out.year)

----------------------------------------------------------------------------
(* The ratio of this_month to budget_estimate: extract_departments_data of   *)
(* the API and calculate_budget_comparison of the comparison script.  A      *)
(* quotient of two ints is kept exact, as num / den with den > 0; round()    *)
(* of a quotient rounds half to even, as round() does on a double for        *)
(* amounts of this size.                                                     *)

MaxAmount == 6      \* the largest amount of a department record, in table units

\* scale = 1000000 in extract_budget_data
scale == 1000000

RECURSIVE Pow10(_)
Pow10(n) == IF n = 0 THEN 1 ELSE 10 * Pow10(n - 1)

Abs(n) == IF n < 0 THEN -n ELSE n

RECURSIVE GCD(_, _)
GCD(a, b) == IF b = 0 THEN a ELSE GCD(b, a % b)

\* num / den in lowest terms, with den > 0
Reduced(num, den, g) == [num |-> num \div g, den |-> den \div g]
Quotient(num, den) ==
    IF den < 0 THEN Reduced(-num, -den, GCD(Abs(num), -den))
    ELSE Reduced(num, den, GCD(Abs(num), den))

\* a / b
TrueDiv(a, b) == IF b = 0 THEN Raised("ZeroDivisionError") ELSE Returned(Quotient(a, b), 0)

\* the nearest integer to num / den (den > 0), the even one of two nearest
HalfEven(num, den) ==
    IF \/ 2 * (num % den) > den
       \/ 2 * (num % den) = den /\ (num \div den) % 2 = 1
    THEN (num \div den) + 1
    ELSE num \div den

\* round(q, ndigits) of the quotient q
round(q, ndigits) == Norm(HalfEven(q.num * Pow10(ndigits), q.den), -ndigits)

\* round(ratio, 2) where ratio is the outcome of the branch taken
RoundRatio(ratio) == IF ratio.raised THEN ratio ELSE Returned(round(ratio.value, 2), 0)

Times100(div) ==
    IF div.raised THEN div
    ELSE Returned([num |-> div.value.num * 100, den |-> div.value.den], 0)

\* the branch taken without the test of budget_estimate
Ratio_Unguarded(this_month, budget_estimate) == Times100(TrueDiv(this_month, budget_estimate))

\* if budget_estimate > 0: ratio = (this_month / budget_estimate) * 100
\* else: ratio = 0
Ratio(this_month, budget_estimate) ==
    IF budget_estimate > 0
    THEN Times100(TrueDiv(this_month, budget_estimate))
    ELSE Returned(Quotient(0, 1), 0)

\* dept_data["ratio_percentage"] = round(ratio, 2)
ratio_percentage(data) == RoundRatio(Ratio(data.this_month, data.budget_estimate))

\* the amounts extract_budget_data returns: the digits of the table, scaled
ScaledAmounts == {a * scale : a \in 0..MaxAmount}

\* the amounts a caller of calculate_budget_comparison may also pass
SignedAmounts == ScaledAmounts \cup {-a : a \in 1..MaxAmount}

RatioInit ==
    /\ dept_data \in [this_month : SignedAmounts, budget_estimate : SignedAmounts]
    /\ ratio_out = None

\* extract_departments_data: the ratio of a record extract_budget_data returned
ExtractDepartmentRatio ==
    /\ ratio_out = None
    /\ dept_data.this_month \in ScaledAmounts
    /\ dept_data.budget_estimate \in ScaledAmounts
    /\ ratio_out' = [by |-> "extract_departments_data", call |-> ratio_percentage(dept_data)]
    /\ UNCHANGED <<dept_data, not_ratio_vars>>

\* calculate_budget_comparison: the ratio of a record of all_data
CalculateBudgetComparison ==
    /\ ratio_out = None
    /\ ratio_out' = [by |-> "calculate_budget_comparison", call |-> ratio_percentage(dept_data)]
    /\ UNCHANGED <<dept_data, not_ratio_vars>>

SpecRatioInit == RatioInit /\ RatioOthersIdle
SpecRatioNext == ExtractDepartmentRatio \/ CalculateBudgetComparison
SpecRatio == SpecRatioInit /\ [][SpecRatioNext]_vars

----------------------------------------------------------------------------
(* The ratio's claim *)

\* the decimal v in hundredths, for a v of at most two decimal places
Hundredths(v) == v.m * Pow10(v.e + 2)

\* C11: ratio_percentage is 0 whenever budget_estimate <= 0, and nothing is
\* raised; otherwise it is a number of two decimal places nearest to
\* this_month / budget_estimate * 100 (no further than half a hundredth from it).
C11_RatioZeroOrRounded ==
    ratio_out # None =>
        /\ ~ratio_out.call.raised
        /\ dept_data.budget_estimate <= 0 => ratio_out.call.value = Zero
        /\ dept_data.budget_estimate > 0 =>
               /\ ratio_out.call.value.e >= -2
               /\ LET h == Hundredths(ratio_out.call.value)
                      q == Quotient(dept_data.this_month, dept_data.budget_estimate)
                      d == h * q.den - 10000 * q.num
                  IN  2 * d <= q.den /\ -2 * d <= q.den

\* a record with a budget estimate of 0 and spending this month got the ratio 0
C11_Witness ==
    /\ dept_data # None
    /\ dept_data.budget_estimate = 0
    /\ dept_data.this_month > 0
    /\ ratio_out # None
    /\ ratio_out.call = Returned(Zero, 0)

----------------------------------------------------------------------------
(* _calculate_percentage_change of the statement API *)

MaxValue == 4       \* the largest magnitude of a compared value

\* a Python float, here of an integral or rational value
PyFloat(x) == [float |-> x]

FloatResult(r) == IF r.raised THEN r ELSE Returned(PyFloat(r.value), 0)

\* ((current - previous) / previous) * 100
PercentageChange(current_, previous_) ==
    FloatResult(Times100(TrueDiv(current_.float - previous_.float, previous_.float)))

\* the function with the test of None only
_calculate_percentage_change_OnlyNone(current_, previous_) ==
    IF previous_ = None THEN Returned(None, 0) ELSE PercentageChange(current_, previous_)

\* if previous is None or previous == 0: return None
_calculate_percentage_change(current_, previous_) ==
    IF previous_ = None \/ previous_ = PyFloat(0)
    THEN Returned(None, 0)
    ELSE PercentageChange(current_, previous_)

Values == {PyFloat(x) : x \in (-MaxValue)..MaxValue}

ChangeInit ==
    /\ current \in Values
    /\ previous \in Values \cup {None}
    /\ change_out = None

\* _calculate_percentage_change(current, previous)
CalculatePercentageChange ==
    /\ change_out = None
    /\ change_out' = [call |-> _calculate_percentage_change(current, previous)]
    /\ UNCHANGED <<current, previous, not_change_vars>>

SpecChangeInit == ChangeInit /\ ChangeOthersIdle
SpecChangeNext == CalculatePercentageChange
SpecChange == SpecChangeInit /\ [][SpecChangeNext]_vars

----------------------------------------------------------------------------
(* The percentage change's claim *)

\* C12: the percentage change is None, not 0 and not a division fault, whenever
\* previous is None or zero; otherwise it is (current - previous) / previous * 100.
C12_ChangeAbsentOrFormula ==
    change_out # None =>
        /\ ~change_out.call.raised
        /\ (previous = None \/ previous = PyFloat(0)) => change_out.call.value = None
        /\ (previous # None /\ previous # PyFloat(0)) =>
               /\ change_out.call.value # None
               /\ change_out.call.value.float.num * previous.float
                      = (current.float - previous.float) * 100 * change_out.call.value.float.den

\* a previous value of zero, with a current value that differs, gave None
C12_Witness ==
    /\ previous = PyFloat(0)
    /\ current = PyFloat(MaxValue)
    /\ change_out # None
    /\ change_out.call = Returned(None, 0)

----------------------------------------------------------------------------
(* compare_statements of the statement API (src/lib/pdf/api.py) *)

\* the truth value of an Optional[str] and of an Optional[float]
TruthyStr(v) == v # None /\ v # PyStr("")
TruthyFloat(v) == v # None /\ v # PyFloat(0)

HTTPException(status_code) == Raised([HTTPException |-> status_code])

\* the entries whose category holds the phrase
TotalEntries(entries, phrase) ==
    {i \in 1..Len(entries) : Contains(phrase, entries[i].category)}

FirstOf(places) == CHOOSE i \in places : \A j \in places : i <= j

\* the entry of the total if there is one, else the first entry, else 0.0
ExtractTotal(entries, phrase) ==
    IF TotalEntries(entries, phrase) # {}
    THEN entries[FirstOf(TotalEntries(entries, phrase))].this_month
    ELSE IF entries # <<>> THEN entries[1].this_month ELSE PyFloat(0)

_extract_total_receipts(data) ==
    IF data = None THEN PyFloat(0)
    ELSE ExtractTotal(data.budget_data.receipts, "Total Receipts")

_extract_total_outlays(data) ==
    IF data = None THEN PyFloat(0)
    ELSE ExtractTotal(data.budget_data.outlays, "Total Outlays")

\* f"{data['metadata'].get('month', 'Unknown')} {data['metadata'].get('year', '')}"
PeriodOf(data) == PyStr(data.metadata.month \o " " \o data.metadata.year)

\* _calculate_percentage_change(primary, comparison) if comparison else None
ChangeIf(primary_value, comparison_value) ==
    IF TruthyFloat(comparison_value)
    THEN _calculate_percentage_change(primary_value, comparison_value).value
    ELSE None

Compared(primary_value, comparison_value) ==
    [primary |-> primary_value,
     comparison |-> comparison_value,
     change |-> ChangeIf(primary_value, comparison_value)]

\* lines 172-199: the result built from the totals
ApiResult(primary_data, comparison_data, primary_outlays, primary_receipts, primary_deficit, comparison_outlays, comparison_receipts, comparison_deficit) ==
    Returned([primary_period |-> PeriodOf(primary_data),
              comparison_period |-> IF comparison_data # None
                                    THEN PeriodOf(comparison_data) ELSE None,
              total_receipts |-> Compared(primary_receipts, comparison_receipts),
              total_outlays |-> Compared(primary_outlays, comparison_outlays),
              deficit |-> Compared(primary_deficit, comparison_deficit)], 0)

\* lines 161 and 165: the deficits
ApiDeficits(primary_data, comparison_data, primary_outlays, primary_receipts, comparison_outlays, comparison_receipts) ==
    ApiResult(primary_data, comparison_data, primary_outlays, primary_receipts,
              PyFloat(primary_outlays.float - primary_receipts.float),
              comparison_outlays, comparison_receipts,
              IF TruthyFloat(comparison_outlays) /\ TruthyFloat(comparison_receipts)
              THEN PyFloat(comparison_outlays.float - comparison_receipts.float)
              ELSE None)

\* lines 159-164: the totals
ApiTotals(primary_data, comparison_data) ==
    ApiDeficits(primary_data, comparison_data,
                _extract_total_outlays(primary_data),
                _extract_total_receipts(primary_data),
                IF comparison_data # None THEN _extract_total_outlays(comparison_data) ELSE None,
                IF comparison_data # None THEN _extract_total_receipts(comparison_data) ELSE None)

\* compare_statements(primary, comparison) of src/lib/pdf/api.py
api_compare_statements(statements, primary, comparison) ==
    IF primary \notin DOMAIN statements THEN HTTPException(404)
    ELSE IF TruthyStr(comparison) /\ comparison.str \notin DOMAIN statements
    THEN HTTPException(404)
    ELSE ApiTotals(statements[primary],
                   IF TruthyStr(comparison) THEN statements[comparison.str] ELSE None)

----------------------------------------------------------------------------
(* compare_statements of the API (src/api/main.py): a mock result *)

\* "X if comparison else None" and "X if comparison else 0" of the mock result
MockItem(current_, previous_, change_percent, comparison) ==
    [current |-> PyFloat(current_),
     previous |-> IF TruthyStr(comparison) THEN PyFloat(previous_) ELSE None,
     change_percent |-> IF TruthyStr(comparison) THEN PyFloat(change_percent) ELSE PyInt(0)]

MockDetail(category, current_, previous_, change_percent, comparison) ==
    [category |-> category,
     current |-> PyFloat(current_),
     previous |-> IF TruthyStr(comparison) THEN PyFloat(previous_) ELSE None,
     change_percent |-> IF TruthyStr(comparison) THEN PyFloat(change_percent) ELSE PyInt(0)]

MockSignificant(category, current_, previous_, change_percent, budget_estimate, comparison) ==
    [category |-> category,
     current |-> PyFloat(current_),
     previous |-> IF TruthyStr(comparison) THEN PyFloat(previous_) ELSE None,
     change_percent |-> IF TruthyStr(comparison) THEN PyFloat(change_percent) ELSE PyInt(0),
     budget_estimate |-> PyFloat(budget_estimate)]

\* lines 460-481
MockSummary(comparison) ==
    [receipts |-> MockItem(Norm(331298, 6), Norm(29395, 7), Norm(127, -1), comparison),
     outlays |-> MockItem(Norm(529196, 6), Norm(488481, 6), Norm(83, -1), comparison),
     deficit |-> MockItem(Norm(197898, 6), Norm(194531, 6), Norm(17, -1), comparison),
     debt |-> MockItem(Norm(34799, 9), Norm(31457, 9), Norm(106, -1), comparison)]

\* lines 483-514
MockDetailedReceipts(comparison) ==
    << MockDetail("Individual Income Taxes", Norm(198779, 6), Norm(17637, 7), Norm(127, -1), comparison),
       MockDetail("Corporation Income Taxes", Norm(7929, 6), Norm(5918, 6), Norm(34, 0), comparison),
       MockDetail("Social Insurance Taxes", Norm(111825, 6), Norm(102843, 6), Norm(87, -1), comparison),
       MockDetail("Excise Taxes", Norm(4777, 6), Norm(5142, 6), Norm(-71, -1), comparison),
       MockDetail("Other", Norm(7988, 6), Norm(3677, 6), Norm(1172, -1), comparison) >>

\* lines 515-558
MockDetailedOutlays(comparison) ==
    << MockDetail("Health and Human Services", Norm(146782, 6), Norm(140219, 6), Norm(47, -1), comparison),
       MockDetail("Social Security Administration", Norm(116721, 6), Norm(107682, 6), Norm(84, -1), comparison),
       MockDetail("Department of Defense", Norm(61493, 6), Norm(59219, 6), Norm(38, -1), comparison),
       MockDetail("Department of Treasury", Norm(88341, 6), Norm(7132, 7), Norm(239, -1), comparison),
       MockDetail("Interest on Treasury Debt", Norm(77029, 6), Norm(6172, 7), Norm(248, -1), comparison),
       MockDetail("Department of Education", Norm(1363, 7), Norm(14279, 6), Norm(-45, -1), comparison),
       MockDetail("Department of Veterans Affairs", Norm(252, 8), Norm(23942, 6), Norm(53, -1), comparison) >>

\* lines 560-589
MockSignificantChanges(comparison) ==
    << MockSignificant("Interest on Treasury Debt", Norm(77029, 6), Norm(6172, 7), Norm(248, -1), Norm(1002503, 6), comparison),
       MockSignificant("Department of Treasury", Norm(88341, 6), Norm(7132, 7), Norm(239, -1), Norm(438826, 6), comparison),
       MockSignificant("Individual Income Taxes", Norm(198779, 6), Norm(17637, 7), Norm(127, -1), Norm(2355223, 6), comparison),
       MockSignificant("Social Insurance Taxes", Norm(111825, 6), Norm(102843, 6), Norm(87, -1), Norm(1720812, 6), comparison) >>

\* lines 590-606
MockInsights ==
    << [type |-> "warning",
        message |-> "Interest costs on Treasury debt have increased by 24.8% compared to last year"],
       [type |-> "info",
        message |-> "Individual income tax receipts are up 12.7% compared to last year"],
       [type |-> "info",
        message |-> "Social insurance taxes have increased by 8.7%"] >>

\* f"{month} {year}" of parse_filename(f"{statement_id}.pdf")
PeriodOfId(parsed) == PyStr(parsed.month.str \o " " \o parsed.year.str)

\* compare_statements(primary, comparison) of src/api/main.py
main_compare_statements(statements, primary, comparison) ==
    Returned([primary_period |-> PeriodOfId(parse_filename(primary \o ".pdf")),
              comparison_period |-> IF TruthyStr(comparison)
                                    THEN PeriodOfId(parse_filename(comparison.str \o ".pdf"))
                                    ELSE None,
              summary |-> MockSummary(comparison),
              detailed |-> [receipts |-> MockDetailedReceipts(comparison),
                            outlays |-> MockDetailedOutlays(comparison)],
              significant_changes |-> MockSignificantChanges(comparison),
              insights |-> MockInsights], 0)

----------------------------------------------------------------------------
(* The two compare_statements endpoints on every query over a small archive *)

Entry(category, this_month) == [category |-> category, this_month |-> PyFloat(this_month)]

\* what process_treasury_statement stored: a table with totals, a table without
\* a total row, the empty table of a page that could not be rendered, and a
\* table whose receipts total is zero
StatementData ==
    { [metadata |-> [month |-> "January", year |-> "2024"],
       budget_data |-> [receipts |-> << Entry("Individual Income Taxes", 3),
                                        Entry("Total Receipts", 5) >>,
                        outlays |-> << Entry("Total Outlays", 8) >>]],
      [metadata |-> [month |-> "February", year |-> "2024"],
       budget_data |-> [receipts |-> << Entry("Customs Duties", 2) >>,
                        outlays |-> << Entry("Department of Defense", 4),
                                       Entry("Total Outlays", 6) >>]],
      [metadata |-> [month |-> "None", year |-> "None"],
       budget_data |-> [receipts |-> <<>>, outlays |-> <<>>]],
      [metadata |-> [month |-> "March", year |-> "2024"],
       budget_data |-> [receipts |-> << Entry("Total Receipts", 0) >>,
                        outlays |-> << Entry("Total Outlays", 6) >>]] }

ProcessedIds == {"mts0124", "mts0224"}
RequestIds == ProcessedIds \cup {"mts0324"}

\* every archive: some of the ids processed, each with some data
Archives == UNION {[S -> StatementData] : S \in SUBSET ProcessedIds}

CompareInit ==
    /\ processed_statements \in Archives
    /\ request \in [primary : RequestIds,
                    comparison : {None, PyStr("")} \cup {PyStr(i) : i \in RequestIds}]
    /\ response = None

\* GET /compare of src/lib/pdf/api.py
ApiCompareStatements ==
    /\ response = None
    /\ response' = [by |-> "api.compare_statements",
                    call |-> api_compare_statements(processed_statements,
                                                    request.primary, request.comparison)]
    /\ UNCHANGED <<processed_statements, request, not_compare_vars>>

\* GET /api/compare of src/api/main.py
MainCompareStatements ==
    /\ response = None
    /\ response' = [by |-> "main.compare_statements",
                    call |-> main_compare_statements(processed_statements,
                                                     request.primary, request.comparison)]
    /\ UNCHANGED <<processed_statements, request, not_compare_vars>>

SpecCompareInit == CompareInit /\ CompareOthersIdle
SpecCompareNext == ApiCompareStatements \/ MainCompareStatements
SpecCompare == SpecCompareInit /\ [][SpecCompareNext]_vars

----------------------------------------------------------------------------
(* The comparison endpoints' claims *)

\* the "previous" and "change" fields of a result, as pairs
PreviousAndChange(by, body) ==
    IF by = "api.compare_statements"
    THEN {<<f.comparison, f.change>> :
              f \in {body.total_receipts, body.total_outlays, body.deficit}}
    ELSE {<<f.previous, f.change_percent>> :
              f \in {body.summary.receipts, body.summary.outlays,
                     body.summary.deficit, body.summary.debt}}
         \cup {<<f.previous, f.change_percent>> : f \in SeqRange(body.detailed.receipts)}
         \cup {<<f.previous, f.change_percent>> : f \in SeqRange(body.detailed.outlays)}
         \cup {<<f.previous, f.change_percent>> : f \in SeqRange(body.significant_changes)}

ComparisonAbsent(by, body) ==
    /\ body.comparison_period = None
    /\ \A pc \in PreviousAndChange(by, body) : pc[1] = None /\ pc[2] = None

\* C13: a comparison query without a comparison input returns a result whose
\* every "previous" field and every "change" field is None, in both endpoints.
C13_NoComparisonAllAbsent ==
    (/\ response # None
     /\ request.comparison = None
     /\ ~response.call.raised)
    => ComparisonAbsent(response.by, response.call.value)

\* C16: a query whose primary statement is missing answers not found (404); a
\* query whose primary is there and whose comparison statement is missing
\* succeeds, with the comparison fields None, in both endpoints.
C16_MissingPrimaryFailsMissingComparisonTolerated ==
    response # None =>
        /\ request.primary \notin DOMAIN processed_statements
               => response.call = HTTPException(404)
        /\ (/\ request.primary \in DOMAIN processed_statements
            /\ TruthyStr(request.comparison)
            /\ request.comparison.str \notin DOMAIN processed_statements)
           => /\ ~response.call.raised
              /\ ComparisonAbsent(response.by, response.call.value)

----------------------------------------------------------------------------
(* The department pipeline of the API (src/api/main.py): extract_budget_data, *)
(* extract_departments_data, get_cached_departments_data, compare_departments. *)
(* The text of page 9 is kept as its table rows, a label and four numerals    *)
(* each, in page order; re.search finds the first row of a department.        *)

MaxDepartments == 7     \* the departments that have a row on a page

DEPARTMENTS ==
    << "Legislative Branch", "Judicial Branch", "Department of Agriculture",
       "Department of Commerce", "Department of Defense", "Department of Education",
       "Department of Energy", "Department of Health and Human Services",
       "Department of Homeland Security",
       "Department of Housing and Urban Development", "Department of the Interior",
       "Department of Justice", "Department of Labor", "Department of State",
       "Department of Transportation", "Department of the Treasury",
       "Department of Veterans Affairs", "Environmental Protection Agency",
       "Social Security Administration", "Other Independent Agencies" >>

\* a page text with table rows; None and "" are the texts that are not text
PageText(rows) == [rows |-> rows]
NotText(text) == text = None \/ text = PyStr("")

\* the rows re.search(pattern, text) can match for the department
RowsOf(text, department_name) ==
    {i \in 1..Len(text.rows) : text.rows[i].label = department_name}

\* the numerals [\d,]+ that the pages of the model hold
Numerals == {"0", "1", "2", "3", "4", "3,0", "4,0", ","}

\* int(numeral.replace(',', '')) of each of them
IntOfNumeral == [numeral \in Numerals |-> int(RemoveChar(numeral, ","))]

\* int(match.group(n).replace(',', ''))
GroupInt(row, n) == IntOfNumeral[row.fields[n]]

\* lines 170-183: the four ints, scaled
ScaledRecord(department_name, this_month, fiscal_year_to_date, prior_period, budget_estimate) ==
    IF ~this_month.ok \/ ~fiscal_year_to_date.ok \/ ~prior_period.ok \/ ~budget_estimate.ok
    THEN Raised("ValueError")
    ELSE Returned([department |-> department_name,
                   this_month |-> this_month.value * scale,
                   fiscal_year_to_date |-> fiscal_year_to_date.value * scale,
                   prior_period |-> prior_period.value * scale,
                   budget_estimate |-> budget_estimate.value * scale], 0)

RecordOfRow(department_name, row) ==
    ScaledRecord(department_name, GroupInt(row, 1), GroupInt(row, 2),
                 GroupInt(row, 3), GroupInt(row, 4))

\* extract_budget_data(text, department_name): None, a record, or ValueError
extract_budget_data(text, department_name) ==
    IF NotText(text) THEN Returned(None, 1)
    ELSE IF RowsOf(text, department_name) = {} THEN Returned(None, 1)
    ELSE RecordOfRow(department_name, text.rows[FirstOf(RowsOf(text, department_name))])

\* dept_data["ratio_percentage"] = round(ratio, 2)
WithRatio(data, ratio) ==
    [department |-> data.department,
     this_month |-> data.this_month,
     fiscal_year_to_date |-> data.fiscal_year_to_date,
     prior_period |-> data.prior_period,
     budget_estimate |-> data.budget_estimate,
     ratio_percentage |-> ratio.value]

\* one iteration of "for department in DEPARTMENTS" (lines 238-253)
DepartmentStep(departments, data) ==
    IF departments.raised THEN departments
    ELSE IF data.raised THEN data
    ELSE IF data.value = None THEN departments
    ELSE Returned(Append(departments.value,
                         WithRatio(data.value, ratio_percentage(data.value))), 0)

\* the list after the first k departments
RECURSIVE DepartmentLoop(_, _)
DepartmentLoop(text, k) ==
    IF k = 0 THEN Returned(<<>>, 0)
    ELSE DepartmentStep(DepartmentLoop(text, k - 1),
                        extract_budget_data(text, DEPARTMENTS[k]))

\* key=lambda x: x.get("ratio_percentage", 0)
RatioKey(x) == Hundredths(x.ratio_percentage)

\* the places of sorted where x may not go: its key is not smaller than x's
NotBelow(sorted, x) == {i \in 1..Len(sorted) : RatioKey(sorted[i]) >= RatioKey(x)}
Above(sorted, x) == {i \in 1..Len(sorted) : RatioKey(sorted[i]) > RatioKey(x)}

InsertAfter(sorted, n, x) ==
    SubSeq(sorted, 1, n) \o <<x>> \o SubSeq(sorted, n + 1, Len(sorted))

\* x goes before the records of its own key
InsertByRatio_BeforeTies(sorted, x) == InsertAfter(sorted, Cardinality(Above(sorted, x)), x)

\* x, which came later than the records of sorted, goes after those of its own key
InsertByRatio(sorted, x) == InsertAfter(sorted, Cardinality(NotBelow(sorted, x)), x)

\* departments.sort(key=..., reverse=True): descending, and stable
RECURSIVE SortByRatio(_)
SortByRatio(departments) ==
    IF departments = <<>> THEN <<>>
    ELSE InsertByRatio(SortByRatio(SubSeq(departments, 1, Len(departments) - 1)),
                       departments[Len(departments)])

\* lines 222-231: period, month, year of parse_filename
DepartmentsData(parsed, departments) ==
    [period |-> PeriodOfId(parsed),
     month |-> parsed.month,
     year |-> parsed.year,
     departments |-> departments]

\* {} of Python
EmptyDict == [empty |-> TRUE]

\* what extract_departments_data returns, given the list of the loop; written is
\* whether the cache file was written with the value
Extracted(statement_id, departments) ==
    IF departments.raised THEN [call |-> departments, written |-> FALSE]
    ELSE [call |-> Returned(DepartmentsData(parse_filename(statement_id \o ".pdf"),
                                            SortByRatio(departments.value)), 0),
          written |-> TRUE]

\* extract_departments_data with the cache file written before the two early
\* returns
extract_departments_data_WritesEmpty(pdfs, statement_id) ==
    IF statement_id \notin DOMAIN pdfs
    THEN [call |-> Returned(EmptyDict, 1), written |-> TRUE]
    ELSE IF NotText(pdfs[statement_id])
    THEN [call |-> Returned(EmptyDict, 1), written |-> TRUE]
    ELSE Extracted(statement_id, DepartmentLoop(pdfs[statement_id], Len(DEPARTMENTS)))

\* extract_departments_data(statement_id), on the PDF directory pdfs
extract_departments_data(pdfs, statement_id) ==
    IF statement_id \notin DOMAIN pdfs
    THEN [call |-> Returned(EmptyDict, 1), written |-> FALSE]
    ELSE IF NotText(pdfs[statement_id])
    THEN [call |-> Returned(EmptyDict, 1), written |-> FALSE]
    ELSE Extracted(statement_id, DepartmentLoop(pdfs[statement_id], Len(DEPARTMENTS)))

\* get_cached_departments_data(statement_id): the cache file if it is there
get_cached_departments_data(pdfs, cache, statement_id) ==
    IF statement_id \in DOMAIN cache
    THEN [call |-> Returned(cache[statement_id], 0), written |-> FALSE]
    ELSE extract_departments_data(pdfs, statement_id)

\* the cache directory after a call for statement_id
CacheAfter(cache, statement_id, got) ==
    IF got.written
    THEN [i \in DOMAIN cache \cup {statement_id} |->
              IF i = statement_id THEN got.call.value ELSE cache[i]]
    ELSE cache

\* departments[:5] and departments[-5:]
TopCount == 5

\* "not data or not data.get('departments')"
NoDepartments(data) == data = EmptyDict \/ data.departments = <<>>

\* the response with every department among the top ones
DepartmentsResponse_TopAll(primary_data, comparison_data, departments) ==
    [primary_period |-> primary_data.period,
     comparison_period |-> None,
     departments |-> departments,
     top_departments |-> departments,
     bottom_departments |-> <<>>,
     comparison_departments |-> <<>>]

\* lines 408-436: the response; comparison_data is None, {} or a record
DepartmentsResponse(primary_data, comparison_data, departments) ==
    [primary_period |-> primary_data.period,
     comparison_period |-> IF comparison_data = None \/ comparison_data = EmptyDict
                           THEN None ELSE comparison_data.period,
     departments |-> departments,
     top_departments |-> IF Len(departments) >= TopCount
                         THEN SubSeq(departments, 1, TopCount) ELSE departments,
     bottom_departments |-> IF Len(departments) >= TopCount
                            THEN SubSeq(departments, Len(departments) - TopCount + 1,
                                        Len(departments))
                            ELSE <<>>,
     comparison_departments |-> IF comparison_data # None /\ ~NoDepartments(comparison_data)
                                THEN comparison_data.departments ELSE <<>>]

Responded(primary_data, comparison_data, logged) ==
    Returned(DepartmentsResponse(primary_data, comparison_data,
                                 SortByRatio(primary_data.departments)), logged)

\* lines 402-405: the comparison statement was asked for and looked up
CompareBoth(primary_data, cache, comparison, got) ==
    IF got.call.raised THEN [call |-> got.call, cache |-> cache]
    ELSE [call |-> Responded(primary_data, got.call.value,
                             IF NoDepartments(got.call.value) THEN 1 ELSE 0),
          cache |-> CacheAfter(cache, comparison.str, got)]

\* lines 397-436, once the primary statement was looked up
ComparePrimary(pdfs, cache, comparison, got) ==
    IF got.call.raised THEN [call |-> got.call, cache |-> cache]
    ELSE IF NoDepartments(got.call.value) THEN [call |-> HTTPException(404), cache |-> cache]
    ELSE IF TruthyStr(comparison)
    THEN CompareBoth(got.call.value, cache, comparison,
                     get_cached_departments_data(pdfs, cache, comparison.str))
    ELSE [call |-> Responded(got.call.value, None, 0), cache |-> cache]

\* line 396: the primary statement was looked up, and perhaps cached
PrimaryLooked(pdfs, cache, primary, comparison, got) ==
    ComparePrimary(pdfs, CacheAfter(cache, primary, got), comparison, got)

\* compare_departments(primary, comparison): the answer and the cache directory
compare_departments(pdfs, cache, primary, comparison) ==
    PrimaryLooked(pdfs, cache, primary, comparison,
                  get_cached_departments_data(pdfs, cache, primary))

----------------------------------------------------------------------------
(* The department endpoints on every page of a bounded table *)

Row(label, fields) == [label |-> label, fields |-> fields]

\* the row of a department on the page: none, one of ratio 25, one of ratio 75
RowKinds == {"none", "quarter", "most"}

FieldsOf(kind) ==
    IF kind = "quarter" THEN <<"1", "2", "3", "4">> ELSE <<"3,0", "2", "1", "4,0">>

\* the rows of the first k departments, in page order
RECURSIVE RowsOfKinds(_, _)
RowsOfKinds(kinds, k) ==
    IF k = 0 THEN <<>>
    ELSE IF kinds[k] = "none" THEN RowsOfKinds(kinds, k - 1)
    ELSE Append(RowsOfKinds(kinds, k - 1), Row(DEPARTMENTS[k], FieldsOf(kinds[k])))

Pages ==
    {PageText(RowsOfKinds(kinds, MaxDepartments)) : kinds \in [1..MaxDepartments -> RowKinds]}

ComparisonPage ==
    PageText(<< Row("Department of Defense", <<"2", "2", "2", "4">>),
                Row("Judicial Branch", <<"1", "1", "1", "0">>) >>)

\* the PDF directory: the primary statement with any page, without a page 9, or
\* missing; the comparison statement with its page, or missing
PdfDirs ==
    LET primary == [{"mts0124"} -> Pages \cup {None}]
        both == {[i \in {"mts0124", "mts0224"} |->
                      IF i = "mts0124" THEN p["mts0124"] ELSE ComparisonPage] : p \in primary}
    IN  primary \cup both \cup {<<>>, [i \in {"mts0224"} |-> ComparisonPage]}

DeptInit ==
    /\ pdf_dir \in PdfDirs
    /\ processed_dir = <<>>
    /\ dept_request \in [primary : {"mts0124"}, comparison : {None, PyStr("mts0224")}]
    /\ dept_response = None

\* process_pdf_background: extract_departments_data of the primary statement
ExtractDepartmentsData ==
    /\ dept_response = None
    /\ "mts0124" \notin DOMAIN processed_dir
    /\ extract_departments_data(pdf_dir, "mts0124").written
    /\ processed_dir' = CacheAfter(processed_dir, "mts0124",
                                   extract_departments_data(pdf_dir, "mts0124"))
    /\ UNCHANGED <<pdf_dir, dept_request, dept_response, not_dept_vars>>

Answer(done) ==
    /\ dept_response' = [call |-> done.call]
    /\ processed_dir' = done.cache

\* GET /api/departments
CompareDepartments ==
    /\ dept_response = None
    /\ Answer(compare_departments(pdf_dir, processed_dir,
                                  dept_request.primary, dept_request.comparison))
    /\ UNCHANGED <<pdf_dir, dept_request, not_dept_vars>>

SpecDeptInit == DeptInit /\ DeptOthersIdle
SpecDeptNext == ExtractDepartmentsData \/ CompareDepartments
SpecDept == SpecDeptInit /\ [][SpecDeptNext]_vars

----------------------------------------------------------------------------
(* The ranking's claims *)

DepartmentIndex(name) == CHOOSE k \in 1..Len(DEPARTMENTS) : DEPARTMENTS[k] = name

\* descending by ratio, and records of equal ratio in the order of extraction,
\* which is the order of DEPARTMENTS
Ranked(list) ==
    \A i, j \in 1..Len(list) :
        i < j => \/ RatioKey(list[i]) > RatioKey(list[j])
                 \/ /\ RatioKey(list[i]) = RatioKey(list[j])
                    /\ DepartmentIndex(list[i].department) < DepartmentIndex(list[j].department)

\* the departments that have a row on page 9 of the statement
OnPage(statement_id) ==
    IF statement_id \notin DOMAIN pdf_dir THEN {}
    ELSE IF NotText(pdf_dir[statement_id]) THEN {}
    ELSE {pdf_dir[statement_id].rows[i].label : i \in 1..Len(pdf_dir[statement_id].rows)}

Named(list) == {list[i].department : i \in 1..Len(list)}

\* list ranks the records of the statement's page, one for each department
RanksPage(list, statement_id) ==
    /\ Ranked(list)
    /\ Named(list) = OnPage(statement_id)
    /\ Len(list) = Cardinality(OnPage(statement_id))

Answered == dept_response # None /\ ~dept_response.call.raised

\* C14: the department records are ranked by ratio_percentage in descending
\* order, records of equal ratio in their order of extraction, both in the
\* record extract_departments_data caches and in the answer of compare_departments.
C14_RankingDescendingStable ==
    /\ \A i \in DOMAIN processed_dir : RanksPage(processed_dir[i].departments, i)
    /\ Answered => RanksPage(dept_response.call.value.departments, dept_request.primary)

\* the answer ranks a record over two records of equal ratio extracted before it,
\* and those two in their order of extraction
C14_Witness ==
    /\ Answered
    /\ Len(dept_response.call.value.departments) >= 3
    /\ dept_response.call.value.departments[1].department = DEPARTMENTS[3]
    /\ dept_response.call.value.departments[2].department = DEPARTMENTS[1]
    /\ dept_response.call.value.departments[3].department = DEPARTMENTS[2]
    /\ RatioKey(dept_response.call.value.departments[2])
           = RatioKey(dept_response.call.value.departments[3])

Min(a, b) == IF a <= b THEN a ELSE b

\* the claim about the top and bottom departments, for a statement of n records
TopAndBottom(n) ==
    /\ Answered
    /\ RanksPage(dept_response.call.value.departments, dept_request.primary)
    /\ dept_response.call.value.top_departments
           = SubSeq(dept_response.call.value.departments, 1, Min(5, n))
    /\ n < 5 => dept_response.call.value.bottom_departments = <<>>

\* C15 as claimed: for a primary statement of n department records the answer's
\* top_departments are the min(5, n) records of highest ratio in descending
\* order, and bottom_departments is empty, not an error, when n < 5.
C15_TopFiveOrAll ==
    dept_response # None => TopAndBottom(Cardinality(OnPage(dept_request.primary)))

\* C15 as amended: the same for every n >= 1; a primary statement without any
\* department record is a not-found error.
C15_TopFiveOrAllOfSome ==
    dept_response # None =>
        IF OnPage(dept_request.primary) = {}
        THEN dept_response.call = HTTPException(404)
        ELSE TopAndBottom(Cardinality(OnPage(dept_request.primary)))

\* seven departments were ranked, and the top ones are the first five of them
C15_Witness ==
    /\ Answered
    /\ Len(dept_response.call.value.departments) = 7
    /\ Len(dept_response.call.value.top_departments) = 5
    /\ dept_response.call.value.top_departments[5] = dept_response.call.value.departments[5]

-----------------------------------------------------------------------------
(* extract_page_text: the fixed-page strategy *)

MaxPages == 3       \* pages of a PDF

\* page.extract_text() of a page whose text cannot be extracted raises
Unextractable == [unextractable |-> TRUE]

\* page.extract_text()
extract_text(page) ==
    IF page = Unextractable THEN Raised("Exception") ELSE Returned(page, 0)

\* PyPDF2.PdfReader(file), with the texts of its pages
PdfReader(pages) == [pages |-> pages]

\* reader.pages[index]: the page list is indexed as a Python sequence, an index
\* below zero counts from the end and an index outside -len..len-1 raises
PagesGetItem(pages, index) ==
    IF index >= Len(pages) \/ index < -Len(pages) THEN Raised("IndexError")
    ELSE Returned(pages[(IF index < 0 THEN Len(pages) + index ELSE index) + 1], 0)

\* except Exception as e: logger.error(...); return None
PageCaught(call) == IF call.raised THEN Returned(None, 1) ELSE call

\* text = reader.pages[page_number].extract_text(); return text
PageTextAt(pages, number) ==
    IF PagesGetItem(pages, number).raised THEN PagesGetItem(pages, number)
    ELSE extract_text(PagesGetItem(pages, number).value)

\* extract_page_text(pdf_path, page_number) of src/api/main.py
extract_page_text(pdf, number) ==
    IF pdf = None THEN PageCaught(Raised("FileNotFoundError"))
    ELSE IF number >= Len(pdf.pages) THEN Returned(None, 1)
    ELSE PageCaught(PageTextAt(pdf.pages, number))

\* extract_page_text(pdf_path, page_number) of extract_budget_comparison.py
script_extract_page_text(pdf, number) ==
    IF pdf = None THEN PageCaught(Raised("FileNotFoundError"))
    ELSE IF number >= Len(pdf.pages) THEN Returned(None, 1)
    ELSE PageCaught(PageTextAt(pdf.pages, number))

PageTexts == {PyStr("Department of Defense"), PyStr(""), Unextractable}

PdfsOfLen(n) == [1..n -> PageTexts]

PagePdfs == {PdfReader(pages) : pages \in UNION {PdfsOfLen(n) : n \in 0..MaxPages}}

PageNumbers == (-(MaxPages + 1))..(MaxPages + 1)

PageInit ==
    /\ page_pdf \in PagePdfs \cup {None}
    /\ page_number \in {PyInt(n) : n \in PageNumbers}
    /\ page_out = None

\* extract_page_text(pdf_path, page_number), src/api/main.py
ExtractPageText ==
    /\ page_out = None
    /\ page_out' = [module |-> "main", call |-> extract_page_text(page_pdf, page_number.int)]
    /\ UNCHANGED <<page_pdf, page_number, not_page_vars>>

\* extract_page_text(pdf_path, page_number), extract_budget_comparison.py
ScriptExtractPageText ==
    /\ page_out = None
    /\ page_out' = [module |-> "extract_budget_comparison",
                    call |-> script_extract_page_text(page_pdf, page_number.int)]
    /\ UNCHANGED <<page_pdf, page_number, not_page_vars>>

SpecPageInit == PageInit /\ PageOthersIdle
SpecPageNext == ExtractPageText \/ ScriptExtractPageText
SpecPage == SpecPageInit /\ [][SpecPageNext]_vars

-----------------------------------------------------------------------------
(* The fixed-page strategy's claim *)

\* the page index denotes a page of the document
DenotesPage ==
    /\ page_pdf # None
    /\ page_number.int >= 0
    /\ page_number.int < Len(page_pdf.pages)

\* C17: for every page index that does not denote an existing page of the
\* document, extract_page_text returns no text (None, with the failure logged)
\* and never the text of another page.
C17_OutOfRangeNoText ==
    (page_out # None /\ ~DenotesPage) =>
        /\ ~page_out.call.raised
        /\ page_out.call.value = None
        /\ page_out.call.logged = 1

\* the part of C17 that the code keeps: an index at or beyond the page count, or
\* further below zero than the page count, gives no text
C17_BeyondEitherEndNoText ==
    (/\ page_out # None
     /\ page_pdf # None
     /\ \/ page_number.int >= Len(page_pdf.pages)
        \/ page_number.int < -Len(page_pdf.pages)) =>
        page_out.call = Returned(None, 1)

\* index -1 of a document of two pages gave the text of its last page
C17_Witness ==
    /\ page_out # None
    /\ page_pdf # None
    /\ Len(page_pdf.pages) = 2
    /\ page_number = PyInt(-1)
    /\ page_pdf.pages[1] = PyStr("")
    /\ page_pdf.pages[2] = PyStr("Department of Defense")
    /\ page_out.call = Returned(PyStr("Department of Defense"), 0)

-----------------------------------------------------------------------------
(* The batch runs: main of process_pdfs.py and process_pdfs of
   extract_budget_comparison.py *)

MaxBatch == 3       \* PDFs of a directory

\* a Python dict: its items, in the order of insertion
DictItem(key, value) == [key |-> key, value |-> value]
DictKeys(d) == {d[i].key : i \in 1..Len(d)}
DictGet(d, key) == d[CHOOSE i \in 1..Len(d) : d[i].key = key].value
\* d[key] = value
DictSet(d, key, value) ==
    IF key \in DictKeys(d)
    THEN [i \in 1..Len(d) |-> IF d[i].key = key THEN DictItem(key, value) ELSE d[i]]
    ELSE Append(d, DictItem(key, value))

\* extract_budget_data of extract_budget_comparison.py: the four ints as they are
PlainRecord(department_name, this_month, fiscal_year_to_date, prior_period, budget_estimate) ==
    IF ~this_month.ok \/ ~fiscal_year_to_date.ok \/ ~prior_period.ok \/ ~budget_estimate.ok
    THEN Raised("ValueError")
    ELSE Returned([department |-> department_name,
                   this_month |-> this_month.value,
                   fiscal_year_to_date |-> fiscal_year_to_date.value,
                   prior_period |-> prior_period.value,
                   budget_estimate |-> budget_estimate.value], 0)

PlainRecordOfRow(department_name, row) ==
    PlainRecord(department_name, GroupInt(row, 1), GroupInt(row, 2),
                GroupInt(row, 3), GroupInt(row, 4))

script_extract_budget_data(text, department_name) ==
    IF NotText(text) THEN Returned(None, 1)
    ELSE IF RowsOf(text, department_name) = {} THEN Returned(None, 1)
    ELSE PlainRecordOfRow(department_name, text.rows[FirstOf(RowsOf(text, department_name))])

\* the file names of a directory, sorted
BatchName(i) == "mts0" \o IntStr(i) \o "24.pdf"

\* extract_metadata_from_filename(pdf_filename) of each of them
MetadataOf == [pdf_filename \in {BatchName(i) : i \in 1..MaxBatch} |->
                  extract_metadata_from_filename(pdf_filename)]

\* metadata["period"]: f"{month_name} {year}", or "Unknown" from the except branch
PeriodOfFields(fields) ==
    IF fields.month = PyStr("Unknown") /\ fields.year = PyStr("Unknown") THEN "Unknown"
    ELSE fields.month.str \o " " \o fields.year.str

\* lines 265-270: the values kept for the period
PeriodValues(data) ==
    [this_month |-> data.this_month,
     fiscal_year_to_date |-> data.fiscal_year_to_date,
     prior_period |-> data.prior_period,
     budget_estimate |-> data.budget_estimate]

\* all_data["departments"][department], {} when it is new (lines 261-262)
DepartmentPeriods(all_departments, department) ==
    IF department \in DictKeys(all_departments) THEN DictGet(all_departments, department)
    ELSE <<>>

\* lines 255-270 for one department: acc holds period_data["departments"] and
\* all_data["departments"]; a ValueError of extract_budget_data is not caught
DepartmentInto(acc, data, department, period) ==
    IF acc.raised THEN acc
    ELSE IF data.raised THEN data
    ELSE IF data.value = None THEN acc
    ELSE Returned([departments |-> DictSet(acc.value.departments, department, data.value),
                   all_departments |->
                       DictSet(acc.value.all_departments, department,
                               DictSet(DepartmentPeriods(acc.value.all_departments, department),
                                       period, PeriodValues(data.value)))], 0)

\* the departments of DEPARTMENTS that the pattern finds in the text, in the
\* order of the loop: for the others extract_budget_data returns None and
\* "if dept_data" skips them
Found(text) == SelectSeq(DEPARTMENTS, LAMBDA department : RowsOf(text, department) # {})

\* "for department in DEPARTMENTS" (lines 254-270), after the first k of those;
\* what the passes before gave and what extract_budget_data returns are each
\* taken once, as values
RECURSIVE DepartmentsInto(_, _, _, _, _)
DepartmentsInto(all_departments, text, period, found, k) ==
    IF k = 0 THEN Returned([departments |-> <<>>, all_departments |-> all_departments], 0)
    ELSE CHOOSE into \in
             {DepartmentInto(acc, data, found[k], period) :
                  acc \in {DepartmentsInto(all_departments, text, period, found, k - 1)},
                  data \in {script_extract_budget_data(text, found[k])}} : TRUE

\* os.path.splitext(pdf_filename)[0] of a name that ends in ".pdf"
Stem(pdf_filename) == SubSeq(pdf_filename, 1, Len(pdf_filename) - 4)

File(name, content) == [name |-> name, content |-> content]

\* what one pass of a loop did: the exception that left it, or the combined data
\* after it, the files it wrote and the PDFs it logged an error for
Passed(all, files, log) == [raised |-> FALSE, all_data |-> all, files |-> files, log |-> log]

\* if period not in all_data["periods"]: all_data["periods"].append(period)
WithPeriod(periods, period) ==
    IF \E i \in 1..Len(periods) : periods[i] = period THEN periods ELSE Append(periods, period)

\* lines 237-276, given the metadata and what the department loop did
PdfProcessed(all, pdf, fields, loop) ==
    IF loop.raised THEN loop
    ELSE Passed([periods |-> WithPeriod(all.periods, PeriodOfFields(fields)),
                 departments |-> loop.value.all_departments],
                << File(Stem(pdf.filename) \o "_all_departments.json",
                        [filename |-> pdf.filename,
                         period |-> PeriodOfFields(fields),
                         month |-> fields.month,
                         year |-> fields.year,
                         departments |-> loop.value.departments]) >>,
                <<>>)

\* one pass of "for pdf_path in pdf_files" of process_pdfs (lines 226-276)
ProcessPdf(all, pdf) ==
    IF NotText(pdf.page_text) THEN Passed(all, <<>>, <<pdf.filename>>)
    ELSE CHOOSE pass \in
             {PdfProcessed(all, pdf, MetadataOf[pdf.filename], loop) :
                  loop \in {DepartmentsInto(all.departments, pdf.page_text,
                                            PeriodOfFields(MetadataOf[pdf.filename]),
                                            found, Len(found)) :
                                found \in {Found(pdf.page_text)}}} : TRUE

\* the amounts of the mock data are ints of twelve and thirteen digits
_create_mock_budget_data ==
    [receipts |-> << Item("Individual Income Taxes", Norm(198779, 6), Norm(926432, 6),
                          Norm(2254, 9)),
                     Item("Corporation Income Taxes", Norm(7929, 6), Norm(87562, 6),
                          Norm(382, 9)),
                     Item("Total Receipts", Norm(331298, 6), Norm(1524825, 6),
                          Norm(4446, 9)) >>,
     outlays |-> << Item("Health and Human Services", Norm(146782, 6), Norm(682511, 6),
                         Norm(1650, 9)),
                    Item("Social Security Administration", Norm(116721, 6),
                         Norm(489217, 6), Norm(1320, 9)),
                    Item("Total Outlays", Norm(529196, 6), Norm(2405319, 6),
                         Norm(6400, 9)) >>]

\* a statement for the extractor: the image of its page 9, or None, and what
\* the OCR and _process_budget_table_data make of it
\* the PIL image of a page
Image == [image |-> TRUE]

Statement(image, tables) == [image |-> image, tables |-> tables]

Tables(receipts, outlays) == [receipts |-> receipts, outlays |-> outlays]

\* TreasuryStatementExtractor._extract_budget_table: the error of a page without
\* an image and the warning of the mock data are logged
_extract_budget_table(statement) ==
    IF statement.image = None THEN Returned(Tables(<<>>, <<>>), 1)
    ELSE IF statement.tables.raised THEN statement.tables
    ELSE IF statement.tables.value.receipts = <<>> /\ statement.tables.value.outlays = <<>>
         THEN Returned(_create_mock_budget_data, 1)
    ELSE Returned(statement.tables.value, 0)

\* self._extract_metadata(pdf_path) of each file name, for a first page without a
\* date
StatementMetadataOf ==
    [pdf_filename \in {BatchName(i) : i \in 1..MaxBatch} |->
        _extract_metadata([readable |-> TRUE, first_page_text |-> "Monthly Treasury Statement"],
                          pdf_filename)]

\* extract_from_pdf with the file written by process_treasury_statement
process_treasury_statement(pdf) ==
    IF _extract_budget_table(pdf.statement).raised THEN _extract_budget_table(pdf.statement)
    ELSE Returned([metadata |-> StatementMetadataOf[pdf.filename],
                   budget_data |-> _extract_budget_table(pdf.statement).value],
                  _extract_budget_table(pdf.statement).logged)

\* one pass of "for pdf_file in pdf_files" of main (process_pdfs.py lines 34-58)
MainProcessed(pdf, result) ==
    IF result.raised THEN Passed(None, <<>>, <<pdf.filename>>)
    ELSE Passed(None, <<File(Stem(pdf.filename) \o ".json", result.value)>>,
                IF result.logged > 0 THEN <<pdf.filename>> ELSE <<>>)

MainProcessPdf(pdf) == MainProcessed(pdf, process_treasury_statement(pdf))

ScriptTexts ==
    { None, PyStr(""),
      PageText(<<Row("Department of Defense", <<"1", "2", "3", "4">>)>>),
      PageText(<<Row("Department of Defense", <<"3,0", "2", "1", "4,0">>),
                 Row("Department of Energy", <<"1", "2", "3", "4">>)>>),
      PageText(<<Row("Department of Energy", <<",", "1", "2", "3">>)>>) }

Statements ==
    { Statement(None, None),
      Statement(Image, Raised("RuntimeError")),
      Statement(Image, Returned(Tables(<<>>, <<>>), 0)),
      Statement(Image, Returned(Tables(<<Item("Total Receipts", Num(1), Num(2), Num(3))>>,
                                         <<>>), 0)) }

ScriptBatches ==
    UNION {{[i \in 1..n |-> [filename |-> BatchName(i), page_text |-> texts[i]]] :
                texts \in [1..n -> ScriptTexts]} : n \in 0..MaxBatch}

MainBatches ==
    UNION {{[i \in 1..n |-> [filename |-> BatchName(i), statement |-> statements[i]]] :
                statements \in [1..n -> Statements]} : n \in 0..MaxBatch}

NoData == [periods |-> <<>>, departments |-> <<>>]

BatchInit ==
    /\ \/ /\ batch_module = "process_pdfs"
          /\ pdf_files \in MainBatches
          /\ all_data = None
       \/ /\ batch_module = "extract_budget_comparison"
          /\ pdf_files \in ScriptBatches
          /\ all_data = NoData
    /\ batch_done = 0
    /\ batch_files = <<>>
    /\ batch_log = <<>>
    /\ batch_result = None

\* the exception leaves the loop and the function, or the loop goes on
AfterPass(pass) ==
    /\ batch_done' = batch_done + 1
    /\ IF pass.raised
       THEN /\ batch_result' = pass
            /\ UNCHANGED <<all_data, batch_files, batch_log>>
       ELSE /\ all_data' = pass.all_data
            /\ batch_files' = batch_files \o pass.files
            /\ batch_log' = batch_log \o pass.log
            /\ UNCHANGED batch_result
    /\ UNCHANGED <<batch_module, pdf_files, not_batch_vars>>

\* process_pdfs.py, main: one pass of the loop
MainPass ==
    /\ batch_module = "process_pdfs"
    /\ batch_result = None
    /\ batch_done < Len(pdf_files)
    /\ \E pass \in {MainProcessPdf(pdf_files[batch_done + 1])} : AfterPass(pass)

\* process_pdfs.py, main: no PDF files, or the end of the loop
MainReturn ==
    /\ batch_module = "process_pdfs"
    /\ batch_result = None
    /\ batch_done = Len(pdf_files)
    /\ batch_result' = Returned(None, IF pdf_files = <<>> THEN 1 ELSE 0)
    /\ UNCHANGED <<batch_module, pdf_files, batch_done, all_data, batch_files, batch_log,
                   not_batch_vars>>

\* extract_budget_comparison.py, process_pdfs: one pass of the loop
ScriptPass ==
    /\ batch_module = "extract_budget_comparison"
    /\ batch_result = None
    /\ batch_done < Len(pdf_files)
    /\ \E pass \in {ProcessPdf(all_data, pdf_files[batch_done + 1])} : AfterPass(pass)

\* extract_budget_comparison.py, process_pdfs: no PDF files, or the combined
\* file and the return
ScriptReturn ==
    /\ batch_module = "extract_budget_comparison"
    /\ batch_result = None
    /\ batch_done = Len(pdf_files)
    /\ IF pdf_files = <<>>
       THEN /\ batch_result' = Returned(None, 1)
            /\ UNCHANGED batch_files
       ELSE /\ batch_result' = Returned(all_data, 0)
            /\ batch_files' = Append(batch_files, File("all_departments_data.json", all_data))
    /\ UNCHANGED <<batch_module, pdf_files, batch_done, all_data, batch_log, not_batch_vars>>

SpecBatchInit == BatchInit /\ BatchOthersIdle
SpecBatchNext == MainPass \/ MainReturn \/ ScriptPass \/ ScriptReturn
\* a batch that is running takes its next step
SpecBatch == SpecBatchInit /\ [][SpecBatchNext]_vars /\ WF_vars(SpecBatchNext)

-----------------------------------------------------------------------------
(* The batch runs' claim *)

\* the pass of the batch that is run
PassOf(all, pdf) ==
    IF batch_module = "process_pdfs" THEN MainProcessPdf(pdf) ELSE ProcessPdf(all, pdf)

\* the extraction of the document fails or yields no data
FailsOrNoData(pdf) ==
    IF batch_module = "process_pdfs"
    THEN process_treasury_statement(pdf).raised \/ process_treasury_statement(pdf).logged > 0
    ELSE NotText(pdf.page_text) \/ ProcessPdf(NoData, pdf).raised

Succeeds(pdf) == ~FailsOrNoData(pdf)

RunThrough(run, pass) ==
    IF pass.raised THEN pass
    ELSE Passed(pass.all_data, run.files \o pass.files, run.log \o pass.log)

RunNext(run, pdf) == IF run.raised THEN run ELSE RunThrough(run, PassOf(run.all_data, pdf))

\* the loop over the first k of the files, from the beginning
RECURSIVE RunBatch(_, _)
RunBatch(files, k) ==
    IF k = 0 THEN Passed(IF batch_module = "process_pdfs" THEN None ELSE NoData, <<>>, <<>>)
    ELSE RunNext(RunBatch(files, k - 1), files[k])

FileNames(pdfs) ==
    {Stem(pdfs[i].filename) \o ".json" : i \in 1..Len(pdfs)}
        \cup {Stem(pdfs[i].filename) \o "_all_departments.json" : i \in 1..Len(pdfs)}

IsFileOfSuccess(file) == file.name \in FileNames(SelectSeq(pdf_files, Succeeds))

\* the batch is over, by a return or by an exception
BatchOver == batch_result # None

BatchReturned ==
    /\ BatchOver
    /\ ~batch_result.raised

\* the PDFs that succeed were processed as in the batch of them alone
AsIfAbsent(run) ==
    /\ ~run.raised
    /\ all_data = run.all_data
    /\ SelectSeq(batch_files, IsFileOfSuccess) = run.files

EveryFailureLogged ==
    \A i \in 1..batch_done :
        FailsOrNoData(pdf_files[i]) =>
            \E j \in 1..Len(batch_log) : batch_log[j] = pdf_files[i].filename

\* C18: a document whose extraction fails or yields no data never aborts the
\* batch: the batch never ends by an exception, every document is eventually
\* attempted, the later documents are processed as if the failing ones were
\* absent, and the failure is logged.
C18_FailingDocumentNeverAborts ==
    /\ [](BatchOver => ~batch_result.raised)
    /\ <>(BatchOver /\ batch_done = Len(pdf_files))
    /\ [](BatchReturned =>
              AsIfAbsent(RunBatch(SelectSeq(pdf_files, Succeeds),
                                  Len(SelectSeq(pdf_files, Succeeds)))))
    /\ [](BatchReturned => EveryFailureLogged)

\* the same of main of process_pdfs.py alone, and of process_pdfs of
\* extract_budget_comparison.py for the documents without page text
DegradesInBatch(pdf) ==
    \/ batch_module = "process_pdfs"
    \/ ~ProcessPdf(NoData, pdf).raised

C18_DegradingDocumentNeverAborts ==
    (\A i \in 1..Len(pdf_files) : DegradesInBatch(pdf_files[i])) =>
        C18_FailingDocumentNeverAborts

\* process_pdfs of extract_budget_comparison.py was left by the ValueError of
\* the second of three PDFs: the third was never attempted
C18_Witness ==
    /\ batch_module = "extract_budget_comparison"
    /\ Len(pdf_files) = 3
    /\ BatchOver
    /\ batch_result = Raised("ValueError")
    /\ batch_done = 2
    /\ Len(batch_files) = 1
    /\ batch_log = <<>>

-----------------------------------------------------------------------------
(* The department cache file under concurrent calls: extract_departments_data
   writes it, get_cached_departments_data reads it *)

\* the calls that share the cache file of statement mts0124
Workers == {"w1", "w2", "w3"}

\* the text of the file, in pieces: the head of the object with period, month
\* and year, one piece for each entry of "departments", and the closing brace;
\* a hole is what a write beyond the end of the file leaves before it
HeadPiece(data) ==
    [piece |-> "{", period |-> data.period, month |-> data.month, year |-> data.year]
EntryPiece(entry) == [piece |-> "entry", entry |-> entry]
ClosePiece == [piece |-> "}"]
HolePiece == [piece |-> "hole"]

\* json.dump(departments_data, f, indent=2): the text that is written
JsonDump(data) ==
    <<HeadPiece(data)>>
        \o [i \in 1..Len(data.departments) |-> EntryPiece(data.departments[i])]
        \o <<ClosePiece>>

\* the text is one whole object
IsJson(text) ==
    /\ Len(text) >= 2
    /\ text[1].piece = "{"
    /\ text[Len(text)].piece = "}"
    /\ \A i \in 2..(Len(text) - 1) : text[i].piece = "entry"

\* json.load(f) of the text read from the file
JsonLoad(text) ==
    IF ~IsJson(text) THEN Raised("JSONDecodeError")
    ELSE Returned([period |-> text[1].period,
                   month |-> text[1].month,
                   year |-> text[1].year,
                   departments |-> [i \in 1..(Len(text) - 2) |-> text[i + 1].entry]], 0)

\* a file with its content
FileOf(content) == [content |-> content]

\* the content after a write of the chunk at the offset of the file object: what
\* lay beyond the chunk stays
WriteAt(content, offset, chunk) ==
    [i \in 1..(IF Len(content) > offset + Len(chunk) THEN Len(content)
               ELSE offset + Len(chunk)) |->
        IF i > offset /\ i <= offset + Len(chunk) THEN chunk[i - offset]
        ELSE IF i <= Len(content) THEN content[i]
        ELSE HolePiece]

\* page 9 of mts0124.pdf as a call may find it: missing, or with its rows
CachePages ==
    { None,
      PageText(<<Row("Department of Defense", <<"1", "2", "3", "4">>)>>),
      PageText(<<Row("Department of Defense", <<"3,0", "2", "1", "4,0">>)>>),
      PageText(<<Row("Department of Defense", <<"1", "2", "3", "4">>),
                 Row("Department of Energy", <<"3,0", "2", "1", "4,0">>)>>) }

\* lines 203-258 of extract_departments_data for each of them
ExtractedOf ==
    [text \in CachePages |-> extract_departments_data([id \in {"mts0124"} |-> text], "mts0124")]

\* the states of a call
Idle == [pc |-> "idle"]
At(pc, from) == [pc |-> pc, from |-> from]
Writing(data, from) == [pc |-> "write", data |-> data, from |-> from]
Done(call, from) == [pc |-> "done", call |-> call, from |-> from]

CacheInit ==
    /\ workers = [w \in Workers |-> Idle]
    /\ cache_file = None
    /\ last_write = None

Becomes(w, state) == workers' = [workers EXCEPT ![w] = state]

\* get_cached_departments_data(statement_id) is called
CallGetCached(w) ==
    /\ workers[w].pc = "idle"
    /\ Becomes(w, At("exists", "get_cached_departments_data"))
    /\ UNCHANGED <<cache_file, last_write, not_cache_vars>>

\* extract_departments_data(statement_id) is called
CallExtract(w) ==
    /\ workers[w].pc = "idle"
    /\ Becomes(w, At("extract", "extract_departments_data"))
    /\ UNCHANGED <<cache_file, last_write, not_cache_vars>>

\* if os.path.exists(cache_file)
Exists(w) ==
    /\ workers[w].pc = "exists"
    /\ Becomes(w, At(IF cache_file = None THEN "extract" ELSE "read", workers[w].from))
    /\ UNCHANGED <<cache_file, last_write, not_cache_vars>>

\* with open(cache_file, 'r') as f: return json.load(f), and the except branch
Read(w) ==
    /\ workers[w].pc = "read"
    /\ Becomes(w, IF JsonLoad(cache_file.content).raised
                  THEN At("extract", workers[w].from)
                  ELSE Done(JsonLoad(cache_file.content), "cache"))
    /\ UNCHANGED <<cache_file, last_write, not_cache_vars>>

\* lines 203-258 of extract_departments_data, on the PDF as it is found
Extract(w) ==
    /\ workers[w].pc = "extract"
    /\ \E text \in CachePages :
           Becomes(w, IF ExtractedOf[text].written
                      THEN [pc |-> "open", data |-> ExtractedOf[text].call.value,
                            from |-> workers[w].from]
                      ELSE Done(ExtractedOf[text].call, workers[w].from))
    /\ UNCHANGED <<cache_file, last_write, not_cache_vars>>

\* open(output_file, 'w'): the file is created or truncated
Open(w) ==
    /\ workers[w].pc = "open"
    /\ cache_file' = FileOf(<<>>)
    /\ Becomes(w, Writing(workers[w].data, workers[w].from))
    /\ UNCHANGED <<last_write, not_cache_vars>>

\* json.dump(departments_data, f, indent=2) and the end of the with block: the
\* text, which is shorter than the buffer of the file object, reaches the file
\* in one write from the start of the file when the file is closed, and
\* departments_data is returned
Write(w) ==
    /\ workers[w].pc = "write"
    /\ cache_file' = FileOf(WriteAt(cache_file.content, 0, JsonDump(workers[w].data)))
    /\ Becomes(w, Done(Returned(workers[w].data, 0), workers[w].from))
    /\ last_write' = workers[w].data
    /\ UNCHANGED not_cache_vars

SpecCacheInit == CacheInit /\ CacheOthersIdle
SpecCacheNext ==
    \E w \in Workers :
        \/ CallGetCached(w)
        \/ CallExtract(w)
        \/ Exists(w)
        \/ Read(w)
        \/ Extract(w)
        \/ Open(w)
        \/ Write(w)
SpecCache == SpecCacheInit /\ [][SpecCacheNext]_vars

-----------------------------------------------------------------------------
(* The department cache's claim *)

\* the records that an extraction of mts0124.pdf writes
CompleteRecords ==
    {ExtractedOf[text].call.value : text \in {t \in CachePages : ExtractedOf[t].written}}

AllDone == \A w \in Workers : workers[w].pc = "done"

\* no call raised
NoCallFails == \A w \in Workers : workers[w].pc = "done" => ~workers[w].call.raised

\* what a call returned from the cache file is a record that was written whole
NoPartialRecord ==
    \A w \in Workers :
        (workers[w].pc = "done" /\ workers[w].from = "cache") =>
            workers[w].call.value \in CompleteRecords

\* once every call is over, the file holds the record of the write that came last
LastWriteWins ==
    (AllDone /\ last_write # None) => cache_file = FileOf(JsonDump(last_write))

\* C19: under any interleaving of get_cached_departments_data and
\* extract_departments_data on one statement id, no call fails, no call returns
\* a partially written record, and after all the writers finish the cache file
\* holds the complete record of the last write.
C19_LastWriteWinsReadersTolerate ==
    /\ NoCallFails
    /\ NoPartialRecord
    /\ LastWriteWins

\* the calls that wrote or write all found the same PDF
SameRecord ==
    \A v, w \in Workers :
        (/\ workers[v].pc \in {"open", "write"} \/ (workers[v].pc = "done" /\ workers[v].from # "cache" /\ workers[v].call.value # EmptyDict)
         /\ workers[w].pc \in {"open", "write"} \/ (workers[w].pc = "done" /\ workers[w].from # "cache" /\ workers[w].call.value # EmptyDict)) =>
            (IF workers[v].pc = "done" THEN workers[v].call.value ELSE workers[v].data)
                = (IF workers[w].pc = "done" THEN workers[w].call.value ELSE workers[w].data)

\* the same while the PDF of the statement does not change between the calls
C19_SameRecordLastWriteWins ==
    (SameRecord /\ (last_write # None => \A w \in Workers :
                        workers[w].pc \in {"open", "write"} => workers[w].data = last_write))
        => C19_LastWriteWinsReadersTolerate

\* every call is over, the write that came last was of the record of one
\* department, and the file holds that record followed by the end of a longer one
C19_Witness ==
    /\ AllDone
    /\ last_write # None
    /\ Len(last_write.departments) = 1
    /\ Len(cache_file.content) = 4
    /\ SubSeq(cache_file.content, 1, 3) = JsonDump(last_write)
    /\ ~IsJson(cache_file.content)

-----------------------------------------------------------------------------
(* analyze_with_openai of extract_budget_comparison.py and of
   extract_homeland_security.py *)

\* an exception with the text that str(e) gives
RaisedWith(exc, message) == [raised |-> TRUE, exc |-> exc, message |-> message]

\* the prompt: the text of the analysis with json.dumps(data, indent=2) in it
Prompt(analysis, data) == [analysis |-> analysis, data |-> data]

\* lines 141-178: the prompt of the analysis type
PromptOf(data, type) ==
    IF type = PyStr("budget_comparison") THEN Prompt("budget_comparison", data)
    ELSE IF type = PyStr("department_comparison") THEN Prompt("department_comparison", data)
    ELSE Prompt("default", data)

\* the response of the collaborator, with the message content of each choice
Response(choices) == [choices |-> choices]

\* response.choices[0].message.content
FirstContent(response_) ==
    IF response_.choices = <<>> THEN RaisedWith("IndexError", "list index out of range")
    ELSE Returned(response_.choices[1], 0)

\* the body of the try block: the call and the content of the first choice
Analysis(created) == IF created.raised THEN created ELSE FirstContent(created.value)

\* the exception leaves analyze_with_openai
AnalysisCaught_Uncaught(tried) == tried

\* except Exception as e: logger.error(...);
\* return f"Error generating analysis: {str(e)}"
AnalysisCaught(tried) ==
    IF tried.raised THEN Returned(PyStr("Error generating analysis: " \o tried.message), 1)
    ELSE tried

\* analyze_with_openai(data, analysis_type) of extract_budget_comparison.py, with
\* what the collaborator does with the prompt
analyze_with_openai(data, type, created) ==
    [prompt |-> PromptOf(data, type), call |-> AnalysisCaught(Analysis(created))]

\* analyze_with_openai(data) of extract_homeland_security.py
homeland_analyze_with_openai(data, created) ==
    [prompt |-> Prompt("homeland_security", data), call |-> AnalysisCaught(Analysis(created))]

AnalysisTypes == {PyStr("budget_comparison"), PyStr("department_comparison"), PyStr("trend")}

\* the data handed over by the scripts' main: the combined data of the PDFs
AnalysisPayloads ==
    { NoData,
      ProcessPdf(NoData, [filename |-> BatchName(1),
                          page_text |-> PageText(<<Row("Department of Defense",
                                                       <<"1", "2", "3", "4">>)>>)]).all_data,
      ProcessPdf(NoData, [filename |-> BatchName(2),
                          page_text |-> PageText(<<Row("Department of Defense",
                                                       <<"3,0", "2", "1", "4,0">>),
                                                   Row("Department of Energy",
                                                       <<"1", "2", "3", "4">>)>>)]).all_data,
      ProcessPdf(NoData, [filename |-> BatchName(3),
                          page_text |-> PageText(<<Row("Department of Homeland Security",
                                                       <<"4", "3", "2", "0">>)>>)]).all_data }

\* a response with content, with None for content, without choices; the errors
\* of the API
Completions ==
    { Returned(Response(<<PyStr("The Department of Defense spent 25% of its budget.")>>), 0),
      Returned(Response(<<PyStr("")>>), 0),
      Returned(Response(<<None>>), 0),
      Returned(Response(<<>>), 0),
      RaisedWith("APIConnectionError", "Connection error."),
      RaisedWith("APITimeoutError", "Request timed out."),
      RaisedWith("RateLimitError", "Error code: 429"),
      RaisedWith("AuthenticationError", "Error code: 401") }

AnalysisInit ==
    /\ \/ /\ analysis_module = "extract_budget_comparison"
          /\ analysis_type \in AnalysisTypes
       \/ /\ analysis_module = "extract_homeland_security"
          /\ analysis_type = None
    /\ analysis_data \in AnalysisPayloads
    /\ completion \in Completions
    /\ analysis_out = None

\* extract_budget_comparison.analyze_with_openai(data, analysis_type)
AnalyzeWithOpenai ==
    /\ analysis_module = "extract_budget_comparison"
    /\ analysis_out = None
    /\ analysis_out' = analyze_with_openai(analysis_data, analysis_type, completion)
    /\ UNCHANGED <<analysis_module, analysis_type, analysis_data, completion,
                   not_analysis_vars>>

\* extract_homeland_security.analyze_with_openai(data)
HomelandAnalyzeWithOpenai ==
    /\ analysis_module = "extract_homeland_security"
    /\ analysis_out = None
    /\ analysis_out' = homeland_analyze_with_openai(analysis_data, completion)
    /\ UNCHANGED <<analysis_module, analysis_type, analysis_data, completion,
                   not_analysis_vars>>

SpecAnalysisInit == AnalysisInit /\ AnalysisOthersIdle
SpecAnalysisNext == AnalyzeWithOpenai \/ HomelandAnalyzeWithOpenai
SpecAnalysis == SpecAnalysisInit /\ [][SpecAnalysisNext]_vars

-----------------------------------------------------------------------------
(* The analysis' claim *)

\* the collaborator failed: the call raised, or its response has no choice
CollaboratorFailed == completion.raised \/ completion.value.choices = <<>>

ErrorPrefix == "Error generating analysis: "

IsErrorString(value) ==
    /\ value # None
    /\ Len(value.str) >= Len(ErrorPrefix)
    /\ SubSeq(value.str, 1, Len(ErrorPrefix)) = ErrorPrefix

\* C20: whenever the collaborator fails inside analyze_with_openai, of either
\* script and for every analysis type and payload, the function raises nothing
\* and returns a string that begins with "Error generating analysis: ".
C20_CollaboratorFailureAbsorbed ==
    (analysis_out # None /\ CollaboratorFailed) =>
        /\ ~analysis_out.call.raised
        /\ IsErrorString(analysis_out.call.value)
        /\ analysis_out.call.logged = 1

\* a department comparison whose call to the collaborator timed out returned
\* the error string of the timeout
C20_Witness ==
    /\ analysis_out # None
    /\ analysis_module = "extract_budget_comparison"
    /\ analysis_type = PyStr("department_comparison")
    /\ analysis_data # NoData
    /\ completion = RaisedWith("APITimeoutError", "Request timed out.")
    /\ analysis_out.prompt.analysis = "department_comparison"
    /\ analysis_out.call = Returned(PyStr("Error generating analysis: Request timed out."), 1)

-----------------------------------------------------------------------------
(* _parse_budget_line on lines of a label and three or four numeric fields *)

RowLabels == {"Net", "Customs Duties"}

RowNumbers == {"7", "12", "1,234", "3.5"}

\* ' '.join(fields)
RECURSIVE JoinFields(_)
JoinFields(fields) ==
    IF Len(fields) = 0 THEN ""
    ELSE IF Len(fields) = 1 THEN fields[1]
    ELSE fields[1] \o " " \o JoinFields(Tail(fields))

\* the line: the label, then the fields, one blank between them
RowLine(label, fields) == label \o " " \o JoinFields(fields)

RowInit ==
    /\ row_label \in RowLabels
    /\ row_fields \in [1..3 -> RowNumbers] \cup [1..4 -> RowNumbers]
    /\ row_out = None

\* self._parse_budget_line(text)
ParseBudgetLine ==
    /\ row_out = None
    /\ row_out' = _parse_budget_line(RowLine(row_label, row_fields))
    /\ UNCHANGED <<row_label, row_fields, not_row_vars>>

SpecRowInit == RowInit /\ RowOthersIdle
SpecRowNext == ParseBudgetLine
SpecRow == SpecRowInit /\ [][SpecRowNext]_vars

-----------------------------------------------------------------------------
(* The row classifier's positional claim *)

\* the number a numeric field denotes
FieldValue(n) == _parse_amount(row_fields[n]).value

\* the line was parsed into a record
RowParsed == row_out # None /\ ~row_out.raised /\ row_out.value # None

\* C21: for a line of a label followed by four numeric fields n1 n2 n3 n4 the
\* record has this_period = n1, fiscal_year_to_date = n2, prior_period = n3 and
\* budget_estimate = n4; for a line of three numeric fields the first two are
\* this_period and fiscal_year_to_date.
C21_FieldsByPosition ==
    row_out # None =>
        /\ RowParsed
        /\ row_out.value.this_month = FieldValue(1)
        /\ row_out.value.fiscal_year_to_date = FieldValue(2)
        /\ Len(row_fields) = 4 =>
               /\ "prior_period" \in DOMAIN row_out.value
               /\ row_out.value.prior_period = FieldValue(3)
               /\ row_out.value.budget_estimate = FieldValue(4)

\* what the code does keep: the label and the first three numeric fields, the
\* third as budget_estimate, whether or not a fourth field follows
C21_FirstThreeFields ==
    row_out # None =>
        /\ RowParsed
        /\ row_out.value = Item(row_label, FieldValue(1), FieldValue(2), FieldValue(3))

\* a line of four fields was parsed, and its fourth field is not in the record
C21_Witness ==
    /\ RowParsed
    /\ Len(row_fields) = 4
    /\ FieldValue(4) # FieldValue(3)
    /\ row_out.value.budget_estimate = FieldValue(3)

-----------------------------------------------------------------------------
(* _process_budget_table_data on recognized texts with fields that float()  *)
(* does not turn into a plain number: a malformed token, and a run of       *)
(* digits beyond the range of a double                                      *)

\* '0' * n, half of them at a time
RECURSIVE Zeros(_)
Zeros(n) ==
    IF n = 0 THEN ""
    ELSE IF n = 1 THEN "0"
    ELSE Zeros(n \div 2) \o Zeros(n - n \div 2)

WideLines ==
    { "Budget Receipts",
      "Budget Outlays",
      "Net 1..2 4 5",
      "Net 1" \o Zeros(309) \o " 2 3",
      "  " }

\* the loop takes the next detection of the OCR result
ProcessWideDetection ==
    /\ table_pc = "loop"
    /\ Len(ocr_results) < MaxLines
    /\ \E text \in WideLines :
           Iterate(text, LoopBody(Locals(current_section, receipts_data, outlays_data), text))
    /\ UNCHANGED <<parse_vars, meta_vars, later_vars>>

SpecWideInit == SpecTableInit
SpecWideNext == ProcessWideDetection \/ ReturnTable
SpecWide == SpecWideInit /\ [][SpecWideNext]_vars

-----------------------------------------------------------------------------
(* The invariant of the records of the section machine *)

\* a float that is a number (no inf, no nan) and is not below zero
IsNonNegativeFinite(v) == "m" \in DOMAIN v /\ v.m >= 0

\* the records of both output lists
OutputRecords ==
    {receipts_data[i] : i \in 1..Len(receipts_data)}
        \cup {outlays_data[i] : i \in 1..Len(outlays_data)}

NumericFields(item) == {item.this_month, item.fiscal_year_to_date, item.budget_estimate}

\* C22: every record of the receipts or outlays list of the section machine,
\* for every stream of lines, has a non-empty trimmed category and numeric
\* fields that are all non-negative finite values.
C22_RecordsNonEmptyNonNegativeFinite ==
    \A item \in OutputRecords :
        /\ item.category # ""
        /\ item.category = Strip(item.category)
        /\ \A v \in NumericFields(item) : IsNonNegativeFinite(v)

\* what the code does keep: the category is non-empty and trimmed, and a
\* numeric field is a non-negative number or inf, never negative and never nan
C22_RecordsNonEmptyNonNegative ==
    \A item \in OutputRecords :
        /\ item.category # ""
        /\ item.category = Strip(item.category)
        /\ \A v \in NumericFields(item) :
               IsNonNegativeFinite(v) \/ v = [special |-> "inf"]

\* the list returned holds a record with an infinite this_month, after a record
\* whose malformed field became 0
C22_Witness ==
    /\ table_pc = "returned"
    /\ Len(receipts_data) = 2
    /\ receipts_data[1].this_month = Zero
    /\ receipts_data[2].this_month = [special |-> "inf"]

-----------------------------------------------------------------------------
(* extract_budget_data of src/api/main.py and of extract_budget_comparison.py *)
(* on the characters of the page text                                        *)

MaxGroups == 5      \* groups that follow a department name on the page

\* [\d,]
NumeralChars == Digits \cup {","}

\* \s+([\d,]+) at position p of the text: the group, as long as it can be
NumeralGroup(text, p) ==
    Field(AfterSpace(text, p),
          AfterSpace(text, p) + RunLen(text, AfterSpace(text, p), NumeralChars),
          /\ AfterSpace(text, p) > p
          /\ RunLen(text, AfterSpace(text, p), NumeralChars) >= 1)

NumeralGroupsOf(text, f1, f2, f3, f4) ==
    IF f4.ok
    THEN <<FieldText(text, f1), FieldText(text, f2), FieldText(text, f3), FieldText(text, f4)>>
    ELSE <<>>

NumeralGroupsAfter3(text, f1, f2, f3) ==
    IF f3.ok THEN NumeralGroupsOf(text, f1, f2, f3, NumeralGroup(text, f3.stop)) ELSE <<>>

NumeralGroupsAfter2(text, f1, f2) ==
    IF f2.ok THEN NumeralGroupsAfter3(text, f1, f2, NumeralGroup(text, f2.stop)) ELSE <<>>

NumeralGroupsAfter1(text, f1) ==
    IF f1.ok THEN NumeralGroupsAfter2(text, f1, NumeralGroup(text, f1.stop)) ELSE <<>>

\* the groups of name\s+([\d,]+)\s+([\d,]+)\s+([\d,]+)\s+([\d,]+) matched with the
\* name at position i of the text, or <<>>; the names have no character that is
\* special in a pattern
NumeralGroupsAt(text, department_name, i) ==
    IF /\ i + Len(department_name) - 1 <= Len(text)
       /\ SubSeq(text, i, i + Len(department_name) - 1) = department_name
    THEN NumeralGroupsAfter1(text, NumeralGroup(text, i + Len(department_name)))
    ELSE <<>>

LeftmostOf(text, department_name, places) ==
    IF places = {} THEN <<>>
    ELSE NumeralGroupsAt(text, department_name, CHOOSE i \in places : \A j \in places : i <= j)

\* re.search(pattern, text): the groups of the leftmost match, or <<>>
SearchDepartment(text, department_name) ==
    LeftmostOf(text, department_name,
               {i \in 1..Len(text) : NumeralGroupsAt(text, department_name, i) # <<>>})

\* int(match.group(n).replace(',', ''))
MatchInt(groups, n) == int(RemoveChar(groups[n], ","))

\* lines 170-183 of src/api/main.py for the groups of the match
ScaledRecordOfMatch(department_name, groups) ==
    ScaledRecord(department_name, MatchInt(groups, 1), MatchInt(groups, 2),
                 MatchInt(groups, 3), MatchInt(groups, 4))

\* lines 95-105 of extract_budget_comparison.py for the groups of the match
PlainRecordOfMatch(department_name, groups) ==
    PlainRecord(department_name, MatchInt(groups, 1), MatchInt(groups, 2),
                MatchInt(groups, 3), MatchInt(groups, 4))

\* extract_budget_data(text, department_name) of src/api/main.py
main_extract_budget_data(text, department_name, groups) ==
    IF NotText(text) THEN Returned(None, 1)
    ELSE IF groups = <<>> THEN Returned(None, 1)
    ELSE ScaledRecordOfMatch(department_name, groups)

\* extract_budget_data(text, department_name) of extract_budget_comparison.py
comparison_extract_budget_data(text, department_name, groups) ==
    IF NotText(text) THEN Returned(None, 1)
    ELSE IF groups = <<>> THEN Returned(None, 1)
    ELSE PlainRecordOfMatch(department_name, groups)

\* the match, for a text that is one
MatchIn(text, department_name) ==
    IF NotText(text) THEN <<>> ELSE SearchDepartment(text.str, department_name)

BudgetNumerals == {"1", "2,0", "7", ","}

BudgetDepartments == {"Department of Energy", "Department of State"}

BudgetFields == UNION {[1..n -> BudgetNumerals] : n \in 0..MaxGroups}

\* the page names the Department of Energy; a text that is None or empty has no
\* groups
BudgetInit ==
    /\ budget_fields \in BudgetFields
    /\ budget_text \in {PyStr(RowLine("Department of Energy", budget_fields))}
                          \cup (IF budget_fields = <<>> THEN {None, PyStr("")} ELSE {})
    /\ budget_department \in BudgetDepartments
    /\ budget_out = None

\* extract_budget_data(text, department_name), src/api/main.py
ExtractBudgetData ==
    /\ budget_out = None
    /\ budget_out' =
           [module |-> "main",
            call |-> main_extract_budget_data(budget_text, budget_department,
                                              MatchIn(budget_text, budget_department))]
    /\ UNCHANGED <<budget_text, budget_fields, budget_department, not_budget_vars>>

\* extract_budget_data(text, department_name), extract_budget_comparison.py
ScriptExtractBudgetData ==
    /\ budget_out = None
    /\ budget_out' =
           [module |-> "extract_budget_comparison",
            call |-> comparison_extract_budget_data(budget_text, budget_department,
                                                    MatchIn(budget_text, budget_department))]
    /\ UNCHANGED <<budget_text, budget_fields, budget_department, not_budget_vars>>

SpecBudgetInit == BudgetInit /\ BudgetOthersIdle
SpecBudgetNext == ExtractBudgetData \/ ScriptExtractBudgetData
SpecBudget == SpecBudgetInit /\ [][SpecBudgetNext]_vars

-----------------------------------------------------------------------------
(* The claims of department-table parsing *)

\* the text names the department that is asked for
Names == ~NotText(budget_text) /\ budget_department = "Department of Energy"

\* the number a group of the page denotes: its digits, the commas left out
GroupValue(n) == DigitsValue(RemoveChar(budget_fields[n], ","))

\* a group that holds a digit
HasDigits(n) == RemoveChar(budget_fields[n], ",") # ""

ReturnedRecord == budget_out # None /\ ~budget_out.call.raised /\ budget_out.call.value # None

ReturnedNone == budget_out # None /\ budget_out.call = Returned(None, 1)

\* C23: extract_budget_data returns a record for a department only when the page
\* text contains the department's name followed by exactly four whitespace-
\* separated numeric groups, and then this_month, fiscal_year_to_date,
\* prior_period and budget_estimate are those four groups in that order; when
\* the name is absent or followed by fewer than four groups it returns no record.
C23_RecordOfExactlyFourGroups ==
    budget_out # None =>
        /\ ReturnedRecord =>
               /\ Names
               /\ Len(budget_fields) = 4
               /\ budget_out.call.value.this_month = GroupValue(1)
               /\ budget_out.call.value.fiscal_year_to_date = GroupValue(2)
               /\ budget_out.call.value.prior_period = GroupValue(3)
               /\ budget_out.call.value.budget_estimate = GroupValue(4)
        /\ (~Names \/ Len(budget_fields) < 4) => ReturnedNone

\* the unit of the record: the API copy multiplies each group by scale
UnitOf(module) == IF module = "main" THEN scale ELSE 1

\* what the code does: no record when the name is absent or fewer than four
\* groups follow it; else the first four groups, in order and in the copy's
\* unit, whether or not a fifth follows, and ValueError when one of the four
\* holds no digit
C23_RecordOfFirstFourGroups ==
    budget_out # None =>
        IF ~Names \/ Len(budget_fields) < 4 THEN ReturnedNone
        ELSE IF \E n \in 1..4 : ~HasDigits(n) THEN budget_out.call = Raised("ValueError")
        ELSE /\ ReturnedRecord
             /\ budget_out.call.value =
                    [department |-> budget_department,
                     this_month |-> GroupValue(1) * UnitOf(budget_out.module),
                     fiscal_year_to_date |-> GroupValue(2) * UnitOf(budget_out.module),
                     prior_period |-> GroupValue(3) * UnitOf(budget_out.module),
                     budget_estimate |-> GroupValue(4) * UnitOf(budget_out.module)]

\* a record was returned for a name that five groups follow
C23_Witness ==
    /\ ReturnedRecord
    /\ Len(budget_fields) = 5
    /\ budget_out.module = "extract_budget_comparison"
    /\ budget_out.call.value.budget_estimate = GroupValue(4)
    /\ GroupValue(5) # GroupValue(4)

\* C24: a soft parse failure never surfaces in department parsing: for every page
\* text and every department name extract_budget_data returns a record or no
\* record and never raises, also when a matched group holds no digit (only
\* commas).
C24_DepartmentParsingNeverRaises ==
    budget_out # None => ~budget_out.call.raised

\* what the code does keep: it raises for no text but one whose match has a
\* group without a digit among its four
C24_RaisesOnlyForGroupWithoutDigit ==
    (budget_out # None /\ budget_out.call.raised) =>
        /\ Names
        /\ Len(budget_fields) >= 4
        /\ \E n \in 1..4 : ~HasDigits(n)

\* the API copy raised ValueError for a row whose second group is a lone comma
C24_Witness ==
    /\ budget_out # None
    /\ budget_out.module = "main"
    /\ budget_out.call = Raised("ValueError")
    /\ Len(budget_fields) = 4
    /\ budget_fields[2] = ","
    /\ \A n \in {1, 3, 4} : HasDigits(n)

-----------------------------------------------------------------------------
(* _process_budget_table_data on the detections of the OCR collaborator:    *)
(* (bbox, text, score) triples                                              *)

MaxDetections == 3      \* detections in one OCR result

\* a detection of reader.readtext(image)
Detection(bbox, text, score) == <<bbox, text, score>>

\* the loop body with the detection dropped when its score is 0
DetectionBody_Gated(st, detection) ==
    IF detection[3] = Zero THEN st ELSE LoopBody(st, detection[2])

\* "bbox, text, score = detection" and the body of the loop: the score is only
\* formatted into the debug record of line 287, which no float fails
DetectionBody(st, detection) == LoopBody(st, detection[2])

\* return receipts_data, outlays_data
ListsOf(st) == [receipts_data |-> st.receipts_data, outlays_data |-> st.outlays_data]

OcrTexts ==
    { "Budget Receipts",
      "Budget Outlays",
      "Net 7 12 3",
      "Page 9" }

\* confidence scores: 0.0 and 1.0
OcrScores == {Zero, Num(1)}

\* the corners of a region, kept as its first
OcrBoxes == {<<0, 0>>, <<10, 20>>}

OcrInit ==
    /\ ocr_detections = <<>>
    /\ ocr_locals = Locals("None", <<>>, <<>>)
    /\ ocr_out = None

\* the loop takes the next detection of the OCR result
ProcessScoredDetection ==
    /\ ocr_out = None
    /\ Len(ocr_detections) < MaxDetections
    /\ \E bbox \in OcrBoxes, text \in OcrTexts, score \in OcrScores :
           /\ ocr_detections' = Append(ocr_detections, Detection(bbox, text, score))
           /\ ocr_locals' = DetectionBody(ocr_locals, Detection(bbox, text, score))
    /\ UNCHANGED <<ocr_out, not_ocr_vars>>

\* the OCR result is exhausted: return receipts_data, outlays_data
ReturnLists ==
    /\ ocr_out = None
    /\ ocr_out' = ListsOf(ocr_locals)
    /\ UNCHANGED <<ocr_detections, ocr_locals, not_ocr_vars>>

SpecOcrInit == OcrInit /\ OcrOthersIdle
SpecOcrNext == ProcessScoredDetection \/ ReturnLists
SpecOcr == SpecOcrInit /\ [][SpecOcrNext]_vars

-----------------------------------------------------------------------------
(* The confidence score does not gate inclusion *)

\* the same recognized texts in the same order, each with position <<0, 0>> and
\* score 1.0
RECURSIVE SameTexts(_)
SameTexts(detections) ==
    IF detections = <<>> THEN <<>>
    ELSE <<Detection(<<0, 0>>, Head(detections)[2], Num(1))>> \o SameTexts(Tail(detections))

\* the locals after the loop has been through the detections
RECURSIVE LocalsAfter(_)
LocalsAfter(detections) ==
    IF detections = <<>> THEN Locals("None", <<>>, <<>>)
    ELSE DetectionBody(LocalsAfter(SubSeq(detections, 1, Len(detections) - 1)),
                       detections[Len(detections)])

\* C25: the confidence score does not gate inclusion: two OCR results that agree
\* on every recognized text and on their order, and differ in scores and
\* positions, give the same receipts and outlays lists.
C25_ScoreDoesNotGate ==
    ocr_out # None => ocr_out = ListsOf(LocalsAfter(SameTexts(ocr_detections)))

\* a row with score 0.0 at another position is in the list returned
C25_Witness ==
    /\ ocr_out # None
    /\ Len(ocr_detections) = 2
    /\ ocr_detections[2][1] = <<10, 20>>
    /\ ocr_detections[2][3] = Zero
    /\ Len(ocr_out.receipts_data) = 1

-----------------------------------------------------------------------------
(* The frame of an unmatched line *)

\* C26: a line that is neither a section marker nor matches a row pattern, and
\* any empty line, is silently dropped: processing it raises nothing and leaves
\* the current section, the receipts list and the outlays list unchanged.
C26_UnmatchedLineDropped ==
    [][(/\ Len(ocr_results') = Len(ocr_results) + 1
        /\ KindTable[ocr_results'[Len(ocr_results')]] = "none")
       => (/\ table_pc' = "loop"
           /\ current_section' = current_section
           /\ receipts_data' = receipts_data
           /\ outlays_data' = outlays_data)]_vars

\* in the receipts section, after a row was kept, a line that is no row and then
\* a blank line were consumed
C26_Witness ==
    /\ Len(ocr_results) = 4
    /\ ocr_results[3] = "Page 9"
    /\ ocr_results[4] = "  "
    /\ current_section = "receipts"
    /\ Len(receipts_data) = 1
    /\ table_pc = "loop"

-----------------------------------------------------------------------------
(* extract_departments_data and get_cached_departments_data, called one     *)
(* after the other on a PDF directory and a cache directory                 *)

StoreIds == {"mts0124", "mts0224"}

\* page 9 of a PDF: no page, no text, a text without a department, a text with
\* one
StorePages ==
    { None,
      PyStr(""),
      PageText(<<>>),
      PageText(<<Row("Department of Defense", <<"1", "2", "3", "4">>)>>) }

StorePdfDirs == UNION {[ids -> StorePages] : ids \in SUBSET StoreIds}

\* a cache file of mts0124 that an earlier run left
StaleData ==
    extract_departments_data(
        [id \in {"mts0124"} |->
            PageText(<<Row("Department of Defense", <<"3,0", "2", "1", "4,0">>)>>)],
        "mts0124").call.value

StoreInit ==
    /\ pdf_dir \in StorePdfDirs
    /\ processed_dir \in {<<>>, [id \in {"mts0124"} |-> StaleData]}
    /\ dept_request = None
    /\ dept_response = None

\* the call is made: what it returns, and the cache directory after it
Called(fn, statement_id, got) ==
    /\ dept_request' = [fn |-> fn, statement_id |-> statement_id]
    /\ dept_response' = [call |-> got.call]
    /\ processed_dir' = CacheAfter(processed_dir, statement_id, got)
    /\ UNCHANGED <<pdf_dir, not_dept_vars>>

\* extract_departments_data(statement_id)
CallExtractDepartmentsData ==
    \E statement_id \in StoreIds :
        Called("extract_departments_data", statement_id,
               extract_departments_data(pdf_dir, statement_id))

\* get_cached_departments_data(statement_id)
CallGetCachedDepartmentsData ==
    \E statement_id \in StoreIds :
        Called("get_cached_departments_data", statement_id,
               get_cached_departments_data(pdf_dir, processed_dir, statement_id))

SpecStoreInit == StoreInit /\ DeptOthersIdle
SpecStoreNext == CallExtractDepartmentsData \/ CallGetCachedDepartmentsData
SpecStore == SpecStoreInit /\ [][SpecStoreNext]_vars

-----------------------------------------------------------------------------
(* The frame of a failed department extraction *)

\* the PDF of the statement is missing, or its page 9 yields no text
NoPageText(statement_id) ==
    statement_id \notin DOMAIN pdf_dir \/ NotText(pdf_dir[statement_id])

\* the step is a call of fn
Calls(fn) == dept_request' # None /\ dept_request'.fn = fn

\* C29: when extract_departments_data fails because the PDF is missing or its
\* page yields no text, it returns an empty result and leaves the persisted
\* cache unchanged (no cache file is created or overwritten), so that a later
\* call extracts again; a cache file is written only after page text was
\* obtained.
C29_FailedExtractionLeavesCache ==
    [][/\ (Calls("extract_departments_data") /\ NoPageText(dept_request'.statement_id))
          => /\ dept_response'.call = Returned(EmptyDict, 1)
             /\ processed_dir' = processed_dir
       /\ (/\ Calls("get_cached_departments_data")
           /\ dept_request'.statement_id \notin DOMAIN processed_dir)
          => dept_response'.call =
                 extract_departments_data(pdf_dir, dept_request'.statement_id).call
       /\ processed_dir' # processed_dir
          => /\ ~NoPageText(dept_request'.statement_id)
             /\ \A id \in DOMAIN processed_dir' :
                    id # dept_request'.statement_id
                        => id \in DOMAIN processed_dir /\ processed_dir'[id] = processed_dir[id]
      ]_vars

\* the extraction of mts0124, whose PDF has no page text, returned {} and the
\* cache file an earlier run left for it is still there
C29_Witness ==
    /\ dept_request = [fn |-> "extract_departments_data", statement_id |-> "mts0124"]
    /\ "mts0124" \in DOMAIN pdf_dir
    /\ pdf_dir["mts0124"] = PyStr("")
    /\ dept_response = [call |-> Returned(EmptyDict, 1)]
    /\ processed_dir = [id \in {"mts0124"} |-> StaleData]

-----------------------------------------------------------------------------
(* The statement service: POST process, process_pdf_background and           *)
(* GET statement of src/lib/pdf/api.py and of src/api/main.py                *)

MaxTasks == 2       \* runs of process_pdf_background since startup

ServiceModules == {"lib.pdf.api", "api.main"}
ServiceFiles == {BatchName(1), BatchName(2)}
ServiceIds == {Stem(pdf_filename) : pdf_filename \in ServiceFiles}

\* every variable the service leaves alone
service_rest_vars ==
    <<table_vars, parse_vars, meta_vars, ratio_vars, change_vars, dept_vars, page_vars,
      batch_vars, cache_vars, analysis_vars, row_vars, budget_vars, ocr_vars>>

\* every group but the service and its cache is idle
RestIdle ==
    /\ ocr_results = <<>> /\ current_section = "None" /\ receipts_data = <<>>
    /\ outlays_data = <<>> /\ table_pc = "loop"
    /\ amount_str = "" /\ amount_out = None /\ line_out = None
    /\ filename = "" /\ document = None /\ meta_out = None
    /\ RatioIdle /\ ChangeIdle /\ DeptIdle /\ PageIdle /\ BatchIdle /\ CacheIdle
    /\ AnalysisIdle /\ RowIdle /\ BudgetIdle /\ OcrIdle

\* the documents directory: one PDF or both
DocumentDirs ==
    { [pdf_filename \in {BatchName(1)} |->
           PageText(<<Row("Department of Defense", <<"1", "2", "3", "4">>)>>)],
      [pdf_filename \in ServiceFiles |->
           PageText(<<Row("Department of Defense", <<"1", "2", "3", "4">>)>>)] }

\* and, for the module that reads the page text, one whose page 9 has no text or
\* a group without a digit
DocumentDirsOf(module) ==
    IF module = "lib.pdf.api" THEN DocumentDirs
    ELSE DocumentDirs \cup
         { [pdf_filename \in ServiceFiles |->
               IF pdf_filename = BatchName(1) THEN PyStr("")
               ELSE PageText(<<Row("Department of Energy", <<",", "1", "2", "3">>)>>)] }

\* what _pdf_page_to_image and the OCR can make of page 9 of a PDF when a run
\* reads it: no image, an OCR that raises, or the table of the page
StatementsOf(pdf_filename) ==
    { Statement(None, None),
      Statement(Image, Raised("RuntimeError")),
      Statement(Image,
                Returned(Tables(<<Item("Total Receipts", Num(1), Num(2), Num(3))>>, <<>>), 0)) }

\* mock_data of process_pdf_background (main.py lines 314-330); processed_date is
\* datetime.now() of the run, here the number of the run; the integers are
\* written as decimals
MockStatement(pdf_filename, processed_date) ==
    [metadata |-> [filename |-> pdf_filename,
                   month |-> parse_filename(pdf_filename).month,
                   year |-> parse_filename(pdf_filename).year,
                   processed_date |-> processed_date],
     budget_data |-> [receipts |-> [total |-> Norm(331298, 6)],
                      outlays |-> [total |-> Norm(529196, 6)],
                      deficit |-> Norm(197898, 6),
                      debt |-> Norm(34799, 9)]]

\* a run of process_pdf_background
Task(pdf_filename, pc, result) == [filename |-> pdf_filename, pc |-> pc, result |-> result]

\* the record of an earlier run, as its output file holds it at startup
EarlierRecord(module) ==
    IF module = "api.main" THEN MockStatement(BatchName(1), 0)
    ELSE process_treasury_statement([filename |-> BatchName(1),
                                     statement |-> Statement(None, None)]).value

\* the name of the department cache file of a statement
DepartmentsFile(statement_id) == statement_id \o "_departments"

\* load_processed_statements: every *.json of the data directory but the
\* department files
load_processed_statements(files) ==
    [statement_id \in DOMAIN files \cap ServiceIds |-> files[statement_id].content]

\* with open(output_path, 'w') as f: json.dump(data, f, indent=2)
Saved(files, stem, data) ==
    [i \in DOMAIN files \cup {stem} |-> IF i = stem THEN FileOf(data) ELSE files[i]]

\* processed_statements[statement_id] = result, with the entry dropped instead
CacheSet_Drops(statements, statement_id, result) ==
    [i \in DOMAIN statements \ {statement_id} |-> statements[i]]

\* processed_statements[statement_id] = result
CacheSet(statements, statement_id, result) ==
    [i \in DOMAIN statements \cup {statement_id} |->
        IF i = statement_id THEN result ELSE statements[i]]

\* get_statement(statement_id) of both modules
get_statement(statements, statement_id) ==
    IF statement_id \notin DOMAIN statements THEN HTTPException(404)
    ELSE Returned(statements[statement_id], 0)

ServiceInit ==
    /\ service_module \in ServiceModules
    /\ documents_dir \in DocumentDirsOf(service_module)
    /\ data_dir \in {<<>>, [i \in {"mts0124"} |-> FileOf(EarlierRecord(service_module))]}
    /\ processed_statements = load_processed_statements(data_dir)
    /\ background_tasks = <<>>
    /\ request = None
    /\ response = None

\* the endpoint answers
Answers(endpoint, argument, call) ==
    /\ request' = [endpoint |-> endpoint, argument |-> argument]
    /\ response' = [by |-> service_module \o "." \o endpoint, call |-> call]

\* POST /statements/process/{filename} of src/lib/pdf/api.py: the run is queued
ProcessStatement ==
    /\ service_module = "lib.pdf.api"
    /\ \E pdf_filename \in ServiceFiles :
        IF pdf_filename \notin DOMAIN documents_dir
        THEN /\ Answers("process_statement", pdf_filename, HTTPException(404))
             /\ UNCHANGED background_tasks
        ELSE /\ Len(background_tasks) < MaxTasks
             /\ Answers("process_statement", pdf_filename,
                        Returned([message |-> "Processing in the background"], 0))
             /\ background_tasks' = Append(background_tasks, Task(pdf_filename, "queued", None))
    /\ UNCHANGED <<service_module, documents_dir, data_dir, processed_statements,
                   service_rest_vars>>

\* the run goes on to pc with this result
TaskGoes(i, pc, result) ==
    background_tasks' =
        [background_tasks EXCEPT ![i] = Task(background_tasks[i].filename, pc, result)]

TaskAt(i, pc) == i <= Len(background_tasks) /\ background_tasks[i].pc = pc

\* process_treasury_statement, lines 378-379: the extractor is built and reads
\* the PDF
TaskExtract(i) ==
    /\ TaskAt(i, "queued")
    /\ \E statement \in StatementsOf(background_tasks[i].filename) :
        LET result == process_treasury_statement([filename |-> background_tasks[i].filename,
                                                  statement |-> statement])
        IN  IF result.raised THEN TaskGoes(i, "failed", None)
            ELSE TaskGoes(i, "extracted", result.value)
    /\ UNCHANGED <<service_module, documents_dir, data_dir, compare_vars, service_rest_vars>>

\* process_treasury_statement, lines 381-388: the output file is written
TaskWrite(i) ==
    /\ TaskAt(i, "extracted")
    /\ data_dir' = Saved(data_dir, Stem(background_tasks[i].filename), background_tasks[i].result)
    /\ TaskGoes(i, "written", background_tasks[i].result)
    /\ UNCHANGED <<service_module, documents_dir, compare_vars, service_rest_vars>>

\* process_pdf_background of src/lib/pdf/api.py, line 81: the cache is updated
TaskCache(i) ==
    /\ TaskAt(i, "written")
    /\ processed_statements' = CacheSet(processed_statements,
                                        Stem(background_tasks[i].filename),
                                        background_tasks[i].result)
    /\ TaskGoes(i, "done", background_tasks[i].result)
    /\ UNCHANGED <<service_module, documents_dir, data_dir, request, response,
                   service_rest_vars>>

TaskStep(i) == TaskExtract(i) \/ TaskWrite(i) \/ TaskCache(i)

\* the department cache file that extract_departments_data leaves
SavedDepartments(files, statement_id, got) ==
    IF got.written THEN Saved(files, DepartmentsFile(statement_id), got.call.value)
    ELSE files

\* process_pdf_background of src/api/main.py, run by POST /api/process inside
\* the handler: output file, cache, then the department data
MainProcessPdfBackground(pdf_filename, got) ==
    /\ data_dir' = SavedDepartments(Saved(data_dir, Stem(pdf_filename),
                                          MockStatement(pdf_filename,
                                                        Len(background_tasks) + 1)),
                                    Stem(pdf_filename), got)
    /\ processed_statements' = CacheSet(processed_statements, Stem(pdf_filename),
                                        MockStatement(pdf_filename,
                                                      Len(background_tasks) + 1))
    /\ background_tasks' =
           Append(background_tasks,
                  Task(pdf_filename, IF got.call.raised THEN "failed" ELSE "done",
                       MockStatement(pdf_filename, Len(background_tasks) + 1)))
    /\ Answers("process_statement", pdf_filename,
               IF got.call.raised THEN HTTPException(500)
               ELSE Returned([message |-> "Successfully processed", status |-> "success"], 0))

\* POST /api/process of src/api/main.py
MainProcessStatement ==
    /\ service_module = "api.main"
    /\ \E pdf_filename \in ServiceFiles :
        IF pdf_filename \notin DOMAIN documents_dir
        THEN /\ Answers("process_statement", pdf_filename, HTTPException(404))
             /\ UNCHANGED <<data_dir, processed_statements, background_tasks>>
        ELSE /\ Len(background_tasks) < MaxTasks
             /\ MainProcessPdfBackground(
                    pdf_filename,
                    extract_departments_data(
                        [id \in {Stem(f) : f \in DOMAIN documents_dir} |->
                            documents_dir[id \o ".pdf"]],
                        Stem(pdf_filename)))
    /\ UNCHANGED <<service_module, documents_dir, service_rest_vars>>

\* GET /statements/{statement_id} and GET /api/statements/{statement_id}
GetStatement ==
    /\ \E statement_id \in ServiceIds :
        Answers("get_statement", statement_id, get_statement(processed_statements, statement_id))
    /\ UNCHANGED <<service_vars, processed_statements, service_rest_vars>>

SpecServiceInit == ServiceInit /\ RestIdle
SpecServiceNext ==
    \/ ProcessStatement
    \/ MainProcessStatement
    \/ GetStatement
    \/ \E i \in 1..MaxTasks : TaskStep(i)
\* every run that was queued is run to its end
SpecService ==
    /\ SpecServiceInit
    /\ [][SpecServiceNext]_vars
    /\ \A i \in 1..MaxTasks : WF_vars(TaskStep(i))

-----------------------------------------------------------------------------
(* get_statement while and after a statement is processed *)

\* the run i has returned
TaskDone(i) == TaskAt(i, "done")

\* the run i has ended: it returned, or the extraction raised
TaskEnded(i) == TaskAt(i, "done") \/ TaskAt(i, "failed")

\* the step is a call of get_statement
GetStatementStep ==
    /\ request' # None
    /\ request'.endpoint = "get_statement"
    /\ request' # request \/ response' # response

\* C27: after a processing request was accepted, get_statement(id) answers 404
\* exactly while id is not in processed_statements and the entry otherwise; a
\* run that was queued comes to its end, when it has returned the id is in
\* processed_statements, and entries are only added or replaced, never removed,
\* so that get_statement returns the record from then on.
C27_NotFoundUntilProcessed ==
    /\ [](\A i \in 1..MaxTasks :
            TaskDone(i) => Stem(background_tasks[i].filename) \in DOMAIN processed_statements)
    /\ [][/\ DOMAIN processed_statements \subseteq DOMAIN processed_statements'
          /\ GetStatementStep
             => response'.call =
                    IF request'.argument \in DOMAIN processed_statements
                    THEN Returned(processed_statements[request'.argument], 0)
                    ELSE HTTPException(404)]_vars
    /\ \A i \in 1..MaxTasks : TaskAt(i, "queued") ~> TaskEnded(i)

\* the run of mts0224.pdf, which had no record at startup, has returned and
\* get_statement answers with the record the run extracted
C27_Witness ==
    /\ service_module = "lib.pdf.api"
    /\ TaskDone(1)
    /\ background_tasks[1].filename = "mts0224.pdf"
    /\ background_tasks[1].result.budget_data.receipts # <<>>
    /\ request = [endpoint |-> "get_statement", argument |-> "mts0224"]
    /\ response.call = Returned(background_tasks[1].result, 0)

-----------------------------------------------------------------------------
(* The cache and the output files when no run is under way *)

\* no run of process_pdf_background is under way
NoTaskInFlight == \A i \in 1..Len(background_tasks) : TaskEnded(i)

\* the statements a run has processed since startup
ProcessedSinceStartup ==
    {Stem(background_tasks[i].filename) :
        i \in {j \in 1..Len(background_tasks) : TaskDone(j)}}

\* the entry of the statement is the record of its output file
EntryIsFile(statement_id) ==
    /\ statement_id \in DOMAIN processed_statements
    /\ statement_id \in DOMAIN data_dir
    /\ processed_statements[statement_id] = data_dir[statement_id].content

\* C28: whenever no run of process_pdf_background is under way, the entry
\* processed_statements[id] of every statement processed since startup equals
\* the record of the output file of id, also after two overlapping runs for the
\* same file.
C28_CacheEqualsFileWhenQuiet ==
    NoTaskInFlight => \A statement_id \in ProcessedSinceStartup : EntryIsFile(statement_id)

\* two runs for mts0124.pdf have both returned, with different records
C28_Witness ==
    /\ Len(background_tasks) = 2
    /\ TaskDone(1) /\ TaskDone(2)
    /\ background_tasks[1].filename = "mts0124.pdf"
    /\ background_tasks[2].filename = "mts0124.pdf"
    /\ background_tasks[1].result # background_tasks[2].result

\* the runs of a file did not overlap: the handler of src/api/main.py runs them
\* one after the other, and of src/lib/pdf/api.py no file was run twice
NoOverlap ==
    \/ service_module = "api.main"
    \/ \A i, j \in 1..Len(background_tasks) :
          background_tasks[i].filename = background_tasks[j].filename => i = j

\* without overlapping runs of a file the entry equals the record of the file
C28_CacheEqualsFileWithoutOverlap ==
    (NoTaskInFlight /\ NoOverlap)
        => \A statement_id \in ProcessedSinceStartup : EntryIsFile(statement_id)

-----------------------------------------------------------------------------
(* The comparison values of compare_statements of src/lib/pdf/api.py *)

\* the query named a comparison statement and the statement API answered it
ComparedWithStatement ==
    /\ response # None
    /\ response.by = "api.compare_statements"
    /\ ~response.call.raised
    /\ TruthyStr(request.comparison)

\* the totals of the comparison statement, and their difference
ComparisonReceipts == _extract_total_receipts(processed_statements[request.comparison.str])
ComparisonOutlays == _extract_total_outlays(processed_statements[request.comparison.str])
ComparisonDeficit == PyFloat(ComparisonOutlays.float - ComparisonReceipts.float)

\* the field reports the total, and no change only for a total of zero
Reports(field, total) ==
    /\ field.comparison = total
    /\ field.change = None => total = PyFloat(0)

\* C30: with a processed comparison statement, each of receipts, outlays and
\* deficit of the statement API's comparison reports that statement's total as
\* its comparison value, and its change is absent only when that total is zero;
\* this also when the receipts or the outlays total of the statement is zero.
C30_ComparisonValuesReported ==
    ComparedWithStatement
        => /\ Reports(response.call.value.total_receipts, ComparisonReceipts)
           /\ Reports(response.call.value.total_outlays, ComparisonOutlays)
           /\ Reports(response.call.value.deficit, ComparisonDeficit)

\* what the code does: receipts and outlays report their totals; the deficit
\* reports the difference when both totals are other than zero, and None, with
\* no change, when one of them is zero
C30_DeficitReportedWhenBothTotalsNonZero ==
    ComparedWithStatement
        => /\ Reports(response.call.value.total_receipts, ComparisonReceipts)
           /\ Reports(response.call.value.total_outlays, ComparisonOutlays)
           /\ (ComparisonReceipts # PyFloat(0) /\ ComparisonOutlays # PyFloat(0))
                  => Reports(response.call.value.deficit, ComparisonDeficit)
           /\ (ComparisonReceipts = PyFloat(0) \/ ComparisonOutlays = PyFloat(0))
                  => /\ response.call.value.deficit.comparison = None
                     /\ response.call.value.deficit.change = None

\* the comparison statement has outlays of 6 and receipts of 0, and the answer
\* holds no deficit for it
C30_Witness ==
    /\ ComparedWithStatement
    /\ ComparisonReceipts = PyFloat(0)
    /\ ComparisonOutlays = PyFloat(6)
    /\ response.call.value.deficit.comparison = None

====
